---- MODULE Spec2Model ----
(***************************************************************************)
(* State-machine model of the techno-economic core of the Global Solar     *)
(* Energy Simulation Framework: the grid ledger (GridModel), the cost      *)
(* ledger (CostModel), the technology registry (SolarTechModel), the       *)
(* market dispatch (MarketSimulator), the investment decision              *)
(* (InvestmentDecisionModel) and the yearly loop (SimulationEngine).       *)
(*                                                                         *)
(* Quantities are integers: capacities in MW, energy in MWh, percentages   *)
(* in whole percent, prices in cents.  Python dictionaries are functions   *)
(* whose DOMAIN is the set of keys that are present.                       *)
(***************************************************************************)
EXTENDS Integers, Sequences, FiniteSets, TLC

VARIABLES
    \* --- GridModel ---
    regional_data,      \* region name -> region parameters (loaded regions only)
    cap_dicts,          \* heap of capacities_mw_by_tech dictionaries: id -> (tech -> MW)
    \* --- CostModel ---
    cost_model,         \* the ledger: current_costs, initial_costs_snapshot, volumes, learning rate
    supply_chain_model, \* the ledger's supply-chain collaborator (or none) and what it answers
    \* --- SolarTechModel, MarketSimulator ---
    technologies,       \* SolarTechModel.technologies: name -> SolarTechnology
    market_designs,     \* MarketSimulator.market_designs: region -> design
    faults,             \* the (region, technology) pairs whose processing raises, and what
    \* --- last operation of a component-level run and what it returned ---
    op,
    ret,
    n_calls,            \* number of state-changing calls made so far in such a run
    direct_solar,       \* history: region -> solar MW given at construction or through
                        \* add_solar_capacity, that is without a per-technology entry
    \* --- SimulationEngine ---
    config,             \* the configuration dictionary given to the constructor
    pc,                 \* where the engine is: construction, a phase of a year, the end
    current_year,       \* the loop variable 'year' of run_simulation
    results,            \* self.results: the year records appended so far
    yearly_investments, \* run_simulation's local of that name
    yearly_outcomes,    \* run_simulation's local market_outcomes
    phase_log           \* history: the <<phase, year>> pairs entered so far

gridVars == <<regional_data, cap_dicts>>
costVars == <<cost_model, supply_chain_model>>
envVars == <<technologies, market_designs, faults>>
callVars == <<op, ret, n_calls, direct_solar>>
engineVars == <<config, pc, current_year, results, yearly_investments, yearly_outcomes,
                phase_log>>
\* what a grid-only run and a cost-only run leave alone
gridIdleVars == <<costVars, envVars, engineVars>>
costIdleVars == <<gridVars, direct_solar, envVars, engineVars>>
vars == <<regional_data, cap_dicts, cost_model, supply_chain_model,
          technologies, market_designs, faults,
          op, ret, n_calls, direct_solar,
          config, pc, current_year, results, yearly_investments, yearly_outcomes,
          phase_log>>

(***************************************************************************)
(* Bounds of the model.                                                    *)
(***************************************************************************)
MaxCalls == 2             \* state-changing calls in a run of one ledger
MaxYears == 2             \* simulated years: StartYear .. StartYear + MaxYears - 1

(***************************************************************************)
(* Names.                                                                  *)
(***************************************************************************)
\* Regions the ledger may be asked about; "Atlantis" is never loaded.
RegionNames == {"USA", "China", "Atlantis"}
LoadableRegions == {"USA", "China"}

\* Technology names, each with the upper-cased markers the name contains.
TechNames == {"TOPCon_PV", "LFP_Battery", "Solar_Battery_Hybrid", "Wind"}

NameMarkers(tech_name) ==
    CASE tech_name = "TOPCon_PV"            -> {"PV", "TOPCON"}
      [] tech_name = "LFP_Battery"          -> {"BATTERY"}
      [] tech_name = "Solar_Battery_Hybrid" -> {"SOLAR", "BATTERY"}
      [] OTHER                              -> {}

\* grid_model.py:131-138
IsSolarPV(tech_name) ==
    /\ NameMarkers(tech_name) \cap {"PV", "SOLAR", "SILICON", "TOPCON", "PEROVSKITE"} # {}
    /\ "BATTERY" \notin NameMarkers(tech_name)

\* dict.get(key, default)
DictGet(d, k, default) == IF k \in DOMAIN d THEN d[k] ELSE default

\* d[k] = v on a dictionary
DictPut(d, k, v) == [x \in (DOMAIN d) \cup {k} |-> IF x = k THEN v ELSE d[x]]

EmptyDict == [x \in {} |-> 0]

\* no operation called yet; an operation that returns nothing
NoCall == [name |-> "none"]
NoValue == [none |-> TRUE]

RECURSIVE SumOver(_, _)
SumOver(d, keys) ==
    IF keys = {} THEN 0
    ELSE LET k == CHOOSE x \in keys : TRUE
         IN d[k] + SumOver(d, keys \ {k})

(***************************************************************************)
(* GridModel                                                               *)
(***************************************************************************)
\* grid_model.py:28-36 (default_grid_params)
DefaultMaxSolarPenetrationPct == 50
DefaultBaseInterconnectionCost == 100000
DefaultTransmissionConstraintPct == 100
DefaultAvgTransmissionCost == 2000
DefaultAvgTerrainPct == 100
DefaultDistanceKm == 10

\* The id of the one dictionary object held by default_grid_params.
DefaultDictId == "default_grid_params"

\* One entry of initial_regional_data.  own_caps = TRUE when the caller
\* supplies a 'capacities_mw_by_tech' dictionary of their own.
\* GridModel.__init__: region_params = default_grid_params.copy() is a shallow
\* copy, so a region without a dictionary of its own holds a reference to the
\* dictionary of default_grid_params.
GridInitRegion(region_name, data) ==
    [ existing_capacity_mw |-> data.existing_capacity_mw,
      current_load_mw      |-> data.current_load_mw,
      max_solar_penetration_pct |-> data.max_solar_penetration_pct,
      base_interconnection_cost_usd_per_mw |-> DefaultBaseInterconnectionCost,
      transmission_constraint_pct |-> DefaultTransmissionConstraintPct,
      avg_transmission_cost_usd_per_mw_km |-> DefaultAvgTransmissionCost,
      avg_terrain_pct      |-> DefaultAvgTerrainPct,
      current_solar_mw     |-> data.current_solar_mw,
      capacities_mw_by_tech |-> IF data.own_caps THEN region_name ELSE DefaultDictId ]

GridInit(initial_regional_data) ==
    /\ regional_data = [r \in DOMAIN initial_regional_data |->
                           GridInitRegion(r, initial_regional_data[r])]
    /\ cap_dicts = [id \in {DefaultDictId} \cup
                           {r \in DOMAIN initial_regional_data : initial_regional_data[r].own_caps}
                       |-> EmptyDict]

\* GridModel.get_max_solar_penetration_mw
get_max_solar_penetration_mw(rd, region_name) ==
    IF region_name \notin DOMAIN rd THEN 0
    ELSE (rd[region_name].existing_capacity_mw * rd[region_name].max_solar_penetration_pct) \div 100

\* GridModel.get_current_solar_mw
get_current_solar_mw(rd, region_name) ==
    IF region_name \notin DOMAIN rd THEN 0
    ELSE rd[region_name].current_solar_mw

\* GridModel.add_solar_capacity: the new regional_data
add_solar_capacity(rd, region_name, new_capacity_mw) ==
    IF region_name \notin DOMAIN rd THEN rd
    ELSE [rd EXCEPT ![region_name].current_solar_mw = @ + new_capacity_mw]

\* GridModel.get_current_capacity_by_tech: the dictionary the region refers to
get_current_capacity_by_tech(rd, cd, region_name) ==
    IF region_name \notin DOMAIN rd THEN EmptyDict
    ELSE cd[rd[region_name].capacities_mw_by_tech]

\* A number that may be float('inf').
Finite(v) == [inf |-> FALSE, v |-> v]
Infinity == [inf |-> TRUE, v |-> 0]

\* GridModel.calculate_interconnection_costs
calculate_interconnection_costs(rd, region_name, new_capacity_mw, distance_km) ==
    IF region_name \notin DOMAIN rd THEN Infinity
    ELSE LET region_info == rd[region_name]
             base_cost == region_info.base_interconnection_cost_usd_per_mw * new_capacity_mw
             transmission_cost ==
                 (region_info.avg_transmission_cost_usd_per_mw_km * new_capacity_mw
                     * distance_km * region_info.avg_terrain_pct) \div 100
         IN Finite(((base_cost + transmission_cost) * region_info.transmission_constraint_pct) \div 100)

\* a comparison that already rejects the addition landing on the ceiling
ReachesCeiling(total_solar, max_solar) == total_solar >= max_solar

\* grid_model.py:173: current_solar + additional_capacity_mw > max_solar
ExceedsCeiling(total_solar, max_solar) == total_solar > max_solar

\* check_grid_constraints without its unknown-region guard taking effect
check_grid_constraints_unguarded(rd, region_name, additional_capacity_mw) ==
    LET current_solar == get_current_solar_mw(rd, region_name)
        max_solar == get_max_solar_penetration_mw(rd, region_name)
    IN ~ExceedsCeiling(current_solar + additional_capacity_mw, max_solar)

\* GridModel.check_grid_constraints
check_grid_constraints(rd, region_name, additional_capacity_mw) ==
    IF region_name \notin DOMAIN rd THEN FALSE
    ELSE LET current_solar == get_current_solar_mw(rd, region_name)
             max_solar == get_max_solar_penetration_mw(rd, region_name)
         IN ~ExceedsCeiling(current_solar + additional_capacity_mw, max_solar)

\* GridModel.add_new_capacity, the body of the inner loop for one
\* (tech_name, capacity_mw) item of one region: the new <<regional_data, cap_dicts>>.
AddTechCapacity(rd, cd, region_name, tech_name, capacity_mw) ==
    IF capacity_mw <= 0 THEN <<rd, cd>>
    ELSE LET id == rd[region_name].capacities_mw_by_tech
             current_tech_capacity == DictGet(cd[id], tech_name, 0)
             cd2 == [cd EXCEPT ![id] = DictPut(@, tech_name, current_tech_capacity + capacity_mw)]
             rd2 == IF IsSolarPV(tech_name)
                    THEN [rd EXCEPT ![region_name].current_solar_mw = @ + capacity_mw]
                    ELSE rd
         IN <<rd2, cd2>>

RECURSIVE AddRegionCapacities(_, _, _, _, _)
AddRegionCapacities(rd, cd, region_name, tech_investments, todo) ==
    IF todo = {} THEN <<rd, cd>>
    ELSE LET t == CHOOSE x \in todo : TRUE
             s == AddTechCapacity(rd, cd, region_name, t, tech_investments[t])
         IN AddRegionCapacities(s[1], s[2], region_name, tech_investments, todo \ {t})

\* GridModel.add_new_capacity: the new <<regional_data, cap_dicts>>
RECURSIVE add_new_capacity(_, _, _, _)
add_new_capacity(rd, cd, new_capacity_details, todo) ==
    IF todo = {} THEN <<rd, cd>>
    ELSE LET r == CHOOSE x \in todo : TRUE
             s == IF r \notin DOMAIN rd THEN <<rd, cd>>
                  ELSE AddRegionCapacities(rd, cd, r, new_capacity_details[r],
                                           DOMAIN new_capacity_details[r])
         IN add_new_capacity(s[1], s[2], new_capacity_details, todo \ {r})

(***************************************************************************)
(* CostModel.  Costs are in cents per kW, volumes in GW.                   *)
(***************************************************************************)
\* cost_model.py:20
CAPEX_COMPONENT_KEYS ==
    {"module_usd_per_kw", "bos_usd_per_kw", "inverter_usd_per_kw", "installation_usd_per_kw"}

\* cost_model.py:23-29, in percent
DEFAULT_REQUIRED_MATERIAL_FRACTION_OF_GLOBAL_PCT == 50
MATERIAL_SHORTFALL_LOW_IMPACT_PCT == 2
MATERIAL_SHORTFALL_MEDIUM_IMPACT_PCT == 7
MATERIAL_SHORTFALL_HIGH_IMPACT_PCT == 15
MATERIAL_TIGHT_SURPLUS_IMPACT_PCT == 1
CONCENTRATION_MODERATE_IMPACT_PCT == 2
CONCENTRATION_HIGH_IMPACT_PCT == 7

\* CostModel._recalculate_total_capex: the new current_costs
recalculate_total_capex(current_costs) ==
    LET present == CAPEX_COMPONENT_KEYS \cap DOMAIN current_costs
    IN DictPut(current_costs, "capex_per_kw", SumOver(current_costs, present))

\* CostModel.__init__
CostModelInit(initial_costs, learning_rate_pct, initial_production_volume) ==
    LET costs == recalculate_total_capex(initial_costs)
    IN [ current_costs |-> costs,
         learning_rate_pct |-> learning_rate_pct,
         current_production_volume |-> initial_production_volume,
         initial_production_volume |-> initial_production_volume,
         initial_costs_snapshot |-> DictPut(initial_costs, "capex_per_kw", costs["capex_per_kw"]) ]

\* CostModel.update_cost_component: the new ledger
update_cost_component(cm, component_name, new_value) ==
    IF component_name \in DOMAIN cm.current_costs
    THEN LET updated == DictPut(cm.current_costs, component_name, new_value)
         IN [cm EXCEPT !.current_costs =
                IF component_name \in CAPEX_COMPONENT_KEYS
                THEN recalculate_total_capex(updated)
                ELSE updated]
    ELSE cm

RECURSIVE IntPow(_, _)
IntPow(b, n) == IF n = 0 THEN 1 ELSE b * IntPow(b, n - 1)

\* -log2(1 - learning_rate) for the learning rates whose exponent is an integer:
\* 0% -> 0, 50% -> 1, 75% -> 2   (cost_model.py:87)
LearningHalvings(learning_rate_pct) ==
    CASE learning_rate_pct = 0  -> 0
      [] learning_rate_pct = 50 -> 1
      [] learning_rate_pct = 75 -> 2

\* initial_cost * (volume / initial_volume) ** exponent   (cost_model.py:94)
LearnedCost(initial_cost, volume, initial_volume, learning_rate_pct) ==
    LET k == LearningHalvings(learning_rate_pct)
    IN (initial_cost * IntPow(initial_volume, k)) \div IntPow(volume, k)

\* a learning step that starts from the current costs instead of the snapshot
LearnFromCurrentCosts(cm, volume, todo) ==
    [k \in DOMAIN cm.current_costs |->
        IF k \in todo /\ k \in DOMAIN cm.initial_costs_snapshot
        THEN LearnedCost(cm.current_costs[k], volume, cm.initial_production_volume,
                         cm.learning_rate_pct)
        ELSE cm.current_costs[k]]

\* cost_model.py:89-98: the loop over CAPEX_COMPONENT_KEYS, the new current_costs
RECURSIVE LearnComponents(_, _, _)
LearnComponents(cm, volume, todo) ==
    IF todo = {} THEN cm.current_costs
    ELSE LET k == CHOOSE x \in todo : TRUE
             rest == LearnComponents(cm, volume, todo \ {k})
         IN IF k \in DOMAIN cm.initial_costs_snapshot /\ k \in DOMAIN cm.current_costs
            THEN DictPut(rest, k, LearnedCost(cm.initial_costs_snapshot[k], volume,
                                              cm.initial_production_volume,
                                              cm.learning_rate_pct))
            ELSE rest

VolumeBelowCurrent(cumulative_production_volume, current_production_volume) ==
    cumulative_production_volume < current_production_volume

\* cost_model.py:82: the volume brings no new production
NoNewVolume(cumulative_production_volume, current_production_volume) ==
    cumulative_production_volume <= current_production_volume

\* CostModel.apply_learning_curve: the new ledger
apply_learning_curve(cm, cumulative_production_volume) ==
    IF NoNewVolume(cumulative_production_volume, cm.current_production_volume) THEN cm
    ELSE [cm EXCEPT
            !.current_costs =
                recalculate_total_capex(
                    LearnComponents(cm, cumulative_production_volume, CAPEX_COMPONENT_KEYS)),
            !.current_production_volume = cumulative_production_volume]

\* CostModel.update_opex_cost: the new ledger
update_opex_cost(cm, new_opex_per_kw_year) ==
    IF "opex_per_kw_year" \in DOMAIN cm.current_costs
    THEN [cm EXCEPT !.current_costs = DictPut(@, "opex_per_kw_year", new_opex_per_kw_year)]
    ELSE cm

\* The supply-chain collaborator as the ledger sees it: whether the reference
\* material is in supply_data and with what global capacity, what
\* get_material_availability answers for the required quantity, and the
\* assessment of get_concentration_risk ("" when it gives none).
NoSupplyChainModel ==
    [present |-> FALSE, material_known |-> FALSE, material_global_capacity |-> 0,
     available |-> FALSE, shortfall |-> 0, surplus |-> 0, assessment |-> ""]

\* tiers that already include their thresholds
MaterialTiersInclusive(scm) ==
    IF ~scm.material_known THEN 0
    ELSE IF ~(scm.material_global_capacity > 0) THEN 0
    ELSE LET required_quantity ==
                 (scm.material_global_capacity * DEFAULT_REQUIRED_MATERIAL_FRACTION_OF_GLOBAL_PCT)
                     \div 100
         IN IF ~scm.available
            THEN IF scm.shortfall * 10 >= required_quantity * 5
                 THEN MATERIAL_SHORTFALL_HIGH_IMPACT_PCT
                 ELSE IF scm.shortfall * 10 >= required_quantity * 2
                 THEN MATERIAL_SHORTFALL_MEDIUM_IMPACT_PCT
                 ELSE MATERIAL_SHORTFALL_LOW_IMPACT_PCT
            ELSE IF scm.surplus * 10 <= scm.material_global_capacity
                 THEN MATERIAL_TIGHT_SURPLUS_IMPACT_PCT
                 ELSE 0

\* cost_model.py:308-339: the material surcharge in percent
MaterialAdjustmentPct(scm) ==
    IF ~scm.material_known THEN 0
    ELSE IF ~(scm.material_global_capacity > 0) THEN 0
    ELSE LET required_quantity ==
                 (scm.material_global_capacity * DEFAULT_REQUIRED_MATERIAL_FRACTION_OF_GLOBAL_PCT)
                     \div 100
         IN IF ~scm.available
            THEN \* shortfall_percentage = shortfall / required_quantity
                 IF scm.shortfall * 10 > required_quantity * 5
                 THEN MATERIAL_SHORTFALL_HIGH_IMPACT_PCT
                 ELSE IF scm.shortfall * 10 > required_quantity * 2
                 THEN MATERIAL_SHORTFALL_MEDIUM_IMPACT_PCT
                 ELSE MATERIAL_SHORTFALL_LOW_IMPACT_PCT
            ELSE IF scm.surplus * 10 < scm.material_global_capacity
                 THEN MATERIAL_TIGHT_SURPLUS_IMPACT_PCT
                 ELSE 0

\* cost_model.py:343-351: the concentration surcharge in percent
ConcentrationAdjustmentPct(scm) ==
    CASE scm.assessment = "Highly concentrated"     -> CONCENTRATION_HIGH_IMPACT_PCT
      [] scm.assessment = "Moderately concentrated" -> CONCENTRATION_MODERATE_IMPACT_PCT
      [] OTHER -> 0

\* an adjustment that takes a missing collaborator for the highest concentration
AdjustWithoutCollaboratorAsHighRisk(cm, scm) ==
    IF "module_usd_per_kw" \notin DOMAIN cm.current_costs THEN cm
    ELSE LET original_module_cost == cm.current_costs["module_usd_per_kw"]
             total_adjustment_pct ==
                 IF ~scm.present THEN CONCENTRATION_HIGH_IMPACT_PCT
                 ELSE MaterialAdjustmentPct(scm) + ConcentrationAdjustmentPct(scm)
         IN IF total_adjustment_pct > 0
            THEN update_cost_component(cm, "module_usd_per_kw",
                     (original_module_cost * (100 + total_adjustment_pct)) \div 100)
            ELSE cm

\* CostModel.adjust_costs_based_on_supply_chain: the new ledger
adjust_costs_based_on_supply_chain(cm, scm) ==
    IF ~scm.present THEN cm
    ELSE IF "module_usd_per_kw" \notin DOMAIN cm.current_costs THEN cm
    ELSE LET original_module_cost == cm.current_costs["module_usd_per_kw"]
             total_adjustment_pct == MaterialAdjustmentPct(scm) + ConcentrationAdjustmentPct(scm)
         IN IF total_adjustment_pct > 0
            THEN update_cost_component(cm, "module_usd_per_kw",
                     (original_module_cost * (100 + total_adjustment_pct)) \div 100)
            ELSE cm

\* no volume given (cumulative_production_volume_for_tech=None)
NoVolume == 0 - 1

\* CostModel.update_for_year: the new ledger
cost_update_for_year(cm, scm, cumulative_production_volume_for_tech) ==
    LET learned == IF /\ cumulative_production_volume_for_tech # NoVolume
                      /\ cumulative_production_volume_for_tech > cm.current_production_volume
                   THEN apply_learning_curve(cm, cumulative_production_volume_for_tech)
                   ELSE cm
    IN IF scm.present THEN adjust_costs_based_on_supply_chain(learned, scm) ELSE learned

\* the ledger and collaborator of a run that has no cost ledger
CostIdle ==
    /\ cost_model = CostModelInit(EmptyDict, 0, 1)
    /\ supply_chain_model = NoSupplyChainModel

(***************************************************************************)
(* SolarTechModel.  Capital cost is carried in cents per kW.               *)
(***************************************************************************)
LinearlyGrownCapexE4(base_e4, reduction_pct, years) ==
    base_e4 + (base_e4 * reduction_pct * years) \div 100

\* base_capex * (1 - annual_capex_reduction_rate) ** years, in 1/10000 USD
RECURSIVE ReducedCapexE4(_, _, _)
ReducedCapexE4(base_e4, reduction_pct, years) ==
    IF years = 0 THEN base_e4
    ELSE (ReducedCapexE4(base_e4, reduction_pct, years - 1) * (100 - reduction_pct)) \div 100

\* round(x, 2) of an amount given in 1/10000 USD, in cents
RoundE4ToCents(x_e4) == (x_e4 + 50) \div 100

\* the anchor year of the projected efficiency (solar_tech_model.py:22-29, 36)
EFFICIENCY_ANCHOR_YEAR == 2035

\* SolarTechnology.__init__: whether annual_efficiency_improvement is set to
\* (projected_efficiency_2035 - base_efficiency) / (2035 - start_year) and not to 0
EfficiencyImproves(tech) ==
    /\ ~(tech.start_year > EFFICIENCY_ANCHOR_YEAR)
    /\ ~(tech.projected_efficiency_2035 <= tech.base_efficiency
            \/ tech.start_year = EFFICIENCY_ANCHOR_YEAR)

InterpolatedDownwards(tech, years_since_start) ==
    tech.base_efficiency - years_since_start

\* base_efficiency + annual_efficiency_improvement * years_since_start, rounded
\* to four decimals (efficiencies are carried in 1/10000)
InterpolatedEfficiency(tech, years_since_start) ==
    IF ~EfficiencyImproves(tech) THEN tech.base_efficiency
    ELSE LET span == EFFICIENCY_ANCHOR_YEAR - tech.start_year
             gain == (tech.projected_efficiency_2035 - tech.base_efficiency) * years_since_start
         IN tech.base_efficiency + (2 * gain + span) \div (2 * span)

\* parameters that report every technology as commercially available
ParamsAlwaysAvailable(tech, tech_name, year) ==
    LET current_efficiency ==
            IF year < tech.start_year THEN tech.base_efficiency
            ELSE IF year >= EFFICIENCY_ANCHOR_YEAR THEN tech.projected_efficiency_2035
            ELSE LET interpolated == InterpolatedEfficiency(tech, year - tech.start_year)
                 IN IF interpolated < tech.projected_efficiency_2035
                    THEN interpolated ELSE tech.projected_efficiency_2035
        current_capex_e4 ==
            IF year < tech.start_year THEN tech.base_capex_usd_per_kw * 100
            ELSE LET reduced == ReducedCapexE4(tech.base_capex_usd_per_kw * 100,
                                               tech.annual_capex_reduction_pct,
                                               year - tech.start_year)
                 IN IF reduced > 0 THEN reduced ELSE 0
    IN [ error |-> FALSE,
         name |-> tech_name,
         year |-> year,
         efficiency |-> current_efficiency,
         capex_usd_per_kw |-> RoundE4ToCents(current_capex_e4),
         is_commercially_available |-> TRUE,
         commercial_scale_year |-> tech.commercial_scale_year ]

\* SolarTechnology.get_params_for_year
get_params_for_year(tech, tech_name, year) ==
    LET current_efficiency ==
            IF year < tech.start_year THEN tech.base_efficiency
            ELSE IF year >= EFFICIENCY_ANCHOR_YEAR THEN tech.projected_efficiency_2035
            ELSE LET interpolated == InterpolatedEfficiency(tech, year - tech.start_year)
                 IN IF interpolated < tech.projected_efficiency_2035
                    THEN interpolated ELSE tech.projected_efficiency_2035
        current_capex_e4 ==
            IF year < tech.start_year THEN tech.base_capex_usd_per_kw * 100
            ELSE LET reduced == ReducedCapexE4(tech.base_capex_usd_per_kw * 100,
                                               tech.annual_capex_reduction_pct,
                                               year - tech.start_year)
                 IN IF reduced > 0 THEN reduced ELSE 0
    IN [ error |-> FALSE,
         name |-> tech_name,
         year |-> year,
         efficiency |-> current_efficiency,
         capex_usd_per_kw |-> RoundE4ToCents(current_capex_e4),
         is_commercially_available |-> (year >= tech.commercial_scale_year),
         commercial_scale_year |-> tech.commercial_scale_year ]

DetailsOfAnyName(techs, tech_name, year) ==
    IF tech_name \notin DOMAIN techs
    THEN get_params_for_year(techs[CHOOSE n \in DOMAIN techs : TRUE], tech_name, year)
    ELSE get_params_for_year(techs[tech_name], tech_name, year)

\* SolarTechModel.get_technology_details
get_technology_details(techs, tech_name, year) ==
    IF tech_name \notin DOMAIN techs
    THEN [error |-> TRUE]
    ELSE get_params_for_year(techs[tech_name], tech_name, year)

(***************************************************************************)
(* MarketSimulator prices.  Prices are in cents per MWh.                   *)
(***************************************************************************)
\* the default_base_price evaluate_project_attractiveness passes, in cents
DefaultBasePrice == 5000

\* MarketSimulator.get_energy_price
get_energy_price(designs, region, time_of_day, default_base_price) ==
    LET region_design == DictGet(designs, region, EmptyDict)
        base_price == DictGet(region_design, "base_energy_price_usd_per_mwh", default_base_price)
        tou_multiplier_pct == DictGet(region_design, time_of_day, 100)
    IN (base_price * tou_multiplier_pct) \div 100

(***************************************************************************)
(* Arithmetic of the evaluation.  Money per kW and per MWh is in cents,    *)
(* project-level money in whole USD, rates in percent.                     *)
(***************************************************************************)
\* floor(a * b / 1000000) for a, b >= 0, without forming a * b
MulE6(a, b) ==
    LET a_hi == a \div 1000000
        a_mid == (a % 1000000) \div 1000
        a_lo == a % 1000
        b_hi == b \div 1000
        b_lo == b % 1000
    IN a_hi * b + a_mid * b_hi
       + ((a_mid * b_lo + a_lo * b_hi + (a_lo * b_lo) \div 1000) \div 1000)

\* floor(a * 100 / c) for a >= 0 and c > 0, without forming a * 100
RatioE2(a, c) == (a \div c) * 100 + ((a % c) * 100) \div c

\* (1 + discount_rate) ** t, in millionths
RECURSIVE GrowthE6(_, _)
GrowthE6(discount_rate_pct, t) ==
    IF t = 0 THEN 1000000
    ELSE (GrowthE6(discount_rate_pct, t - 1) * (100 + discount_rate_pct)) \div 100

\* the capital recovery factor r(1+r)^n / ((1+r)^n - 1) = r + r / ((1+r)^n - 1),
\* in millionths, for r > 0 and n > 0   (cost_model.py:206-221)
CrfE6(discount_rate_pct, economic_lifetime_years) ==
    LET denominator_e4 == (GrowthE6(discount_rate_pct, economic_lifetime_years) - 1000000) \div 100
    IN discount_rate_pct * 10000 + (discount_rate_pct * 100000000) \div denominator_e4

HOURS_PER_YEAR == 8760

\* (1 + discount_rate) ** lifetime - 1 is zero   (cost_model.py:125, 209)
CrfDenominatorIsZero(discount_rate_pct, economic_lifetime_years) ==
    GrowthE6(discount_rate_pct, economic_lifetime_years) = 1000000

\* CostModel.calculate_lcoe called without annual_opex_per_kw and
\* fuel_cost_per_mwh: the float returned (in cents per MWh), or the exception
\* the call raises
calculate_lcoe(cm, capacity_factor_pct, discount_rate_pct, economic_lifetime_years) ==
    LET capex == DictGet(cm.current_costs, "capex_per_kw", 0)
        opex == DictGet(cm.current_costs, "opex_per_kw_year", 0)
        crf_e6 == IF discount_rate_pct > 0
                  THEN CrfE6(discount_rate_pct, economic_lifetime_years)
                  ELSE 1000000 \div economic_lifetime_years
        annualized_capex == MulE6(capex * 100, crf_e6)
        generation_e5 == HOURS_PER_YEAR * capacity_factor_pct
    IN IF capex = 0 THEN [raised |-> "", lcoe |-> Infinity]
       ELSE IF discount_rate_pct > 0
               /\ CrfDenominatorIsZero(discount_rate_pct, economic_lifetime_years)
       THEN [raised |-> "ZeroDivisionError"]
       ELSE IF ~(discount_rate_pct > 0) /\ ~(economic_lifetime_years > 0)
       THEN [raised |-> "", lcoe |-> Infinity]
       ELSE IF generation_e5 = 0 THEN [raised |-> "", lcoe |-> Infinity]
       ELSE \* (annualized_capex + opex) / annual_generation_mwh_per_kw, without
            \* forming the product by 1000
            LET annual_cost_e4 == annualized_capex + opex * 100
            IN [raised |-> "",
                lcoe |-> Finite((annual_cost_e4 \div generation_e5) * 1000
                                + ((annual_cost_e4 % generation_e5) * 1000) \div generation_e5)]

LcoeWithoutErrorResults(cm, techs, technology_name, year, capacity_factor_pct, discount_rate_pct, economic_lifetime_years) ==
    [ error |-> FALSE, lcoe_usd_per_mwh |-> 0, capex_usd_per_kw |-> 0,
      opex_per_kw_year |-> DictGet(cm.current_costs, "opex_per_kw_year", 0),
      is_commercially_available |-> TRUE ]

\* CostModel.calculate_lcoe_for_evolving_solar_tech
calculate_lcoe_for_evolving_solar_tech(cm, techs, technology_name, year, capacity_factor_pct, discount_rate_pct, economic_lifetime_years) ==
    LET tech_params == get_technology_details(techs, technology_name, year)
    IN IF tech_params.error THEN [error |-> TRUE, lcoe_usd_per_mwh |-> Infinity]
       ELSE
       LET capex_per_kw == tech_params.capex_usd_per_kw
           opex_per_kw_year == DictGet(cm.current_costs, "opex_per_kw_year", 0)
           denominator_is_zero ==
               /\ economic_lifetime_years > 0
               /\ discount_rate_pct # 0
               /\ CrfDenominatorIsZero(discount_rate_pct, economic_lifetime_years)
           crf_e6 == IF economic_lifetime_years <= 0 THEN 0
                     ELSE IF discount_rate_pct = 0 THEN 1000000 \div economic_lifetime_years
                     ELSE IF denominator_is_zero THEN 0
                     ELSE CrfE6(discount_rate_pct, economic_lifetime_years)
           \* capex_per_kw * crf, in 1/10000 USD
           annualized_capex == MulE6(capex_per_kw * 100, crf_e6)
           \* annual_generation_mwh_per_kw = 8760 * capacity_factor / 1000, times 100000
           generation_e5 == HOURS_PER_YEAR * capacity_factor_pct
           \* round(lcoe_usd_per_mwh, 2)
           lcoe == IF generation_e5 = 0 THEN 0
                   ELSE ((annualized_capex + opex_per_kw_year * 100) * 1000 + generation_e5 \div 2)
                            \div generation_e5
       IN IF economic_lifetime_years <= 0 /\ capex_per_kw > 0
          THEN [error |-> TRUE, lcoe_usd_per_mwh |-> Infinity]
          ELSE IF denominator_is_zero /\ capex_per_kw > 0
          THEN [error |-> TRUE, lcoe_usd_per_mwh |-> Infinity]
          ELSE IF generation_e5 = 0 /\ annualized_capex + opex_per_kw_year > 0
          THEN [error |-> TRUE, lcoe_usd_per_mwh |-> Infinity]
          ELSE [ error |-> FALSE,
                 lcoe_usd_per_mwh |-> lcoe,
                 capex_usd_per_kw |-> capex_per_kw,
                 opex_per_kw_year |-> opex_per_kw_year,
                 is_commercially_available |-> tech_params.is_commercially_available ]

\* the sum over t = 1 .. years of 1 / (1 + discount_rate) ** t, in millionths;
\* factor is 1 / (1 + discount_rate) ** (t - 1) of the first term
RECURSIVE DiscountFactorSumFromE6(_, _, _)
DiscountFactorSumFromE6(discount_rate_pct, years, factor) ==
    IF years = 0 THEN 0
    ELSE LET next_factor == (factor * 100) \div (100 + discount_rate_pct)
         IN next_factor + DiscountFactorSumFromE6(discount_rate_pct, years - 1, next_factor)

DiscountFactorSumE6(discount_rate_pct, years) ==
    DiscountFactorSumFromE6(discount_rate_pct, years, 1000000)

\* InvestmentDecisionModel._calculate_npv for the same cash flow in every year:
\* -initial_investment + sum over t of cash_flow / (1 + discount_rate) ** t
calculate_npv(initial_investment, annual_cash_flow, years, discount_rate_pct) ==
    LET factor_sum_e6 == DiscountFactorSumE6(discount_rate_pct, years)
    IN (0 - initial_investment)
       + (IF annual_cash_flow >= 0 THEN MulE6(annual_cash_flow, factor_sum_e6)
          ELSE 0 - MulE6(0 - annual_cash_flow, factor_sum_e6))

PaybackIgnoringZeroInvestment(project_capacity_mw, initial_investment_usd, annual_net_cash_flow_usd) ==
    IF project_capacity_mw = 0 /\ initial_investment_usd = 0
    THEN [kind |-> "years", years_e2 |-> 0]
    ELSE IF annual_net_cash_flow_usd <= 0
    THEN [kind |-> "N/A (negative or zero cash flow)", years_e2 |-> 0]
    ELSE [kind |-> "years",
          years_e2 |-> RatioE2(initial_investment_usd, annual_net_cash_flow_usd)]

\* investment_decision_model.py:324-333: the simple payback period, a number
\* of years (in hundredths) or one of the two 'N/A' texts
SimplePayback(project_capacity_mw, initial_investment_usd, annual_net_cash_flow_usd) ==
    IF project_capacity_mw = 0 /\ initial_investment_usd = 0
    THEN [kind |-> "years", years_e2 |-> 0]
    ELSE IF initial_investment_usd = 0
    THEN [kind |-> "N/A (initial investment is zero)", years_e2 |-> 0]
    ELSE IF annual_net_cash_flow_usd <= 0
    THEN [kind |-> "N/A (negative or zero cash flow)", years_e2 |-> 0]
    ELSE [kind |-> "years",
          years_e2 |-> RatioE2(initial_investment_usd, annual_net_cash_flow_usd)]

\* InvestmentDecisionModel.evaluate_project_attractiveness without ancillary
\* services and without a carbon scheme (the two optional arguments left out,
\* as decide_investments leaves them out)
evaluate_project_attractiveness(self, technology_name, year, project_capacity_mw, capacity_factor_pct, discount_rate_pct, economic_lifetime_years, region, time_of_day) ==
    LET lcoe_data == calculate_lcoe_for_evolving_solar_tech(
                         self.cost_model, self.solar_tech_model, technology_name, year,
                         capacity_factor_pct, discount_rate_pct, economic_lifetime_years)
    IN IF lcoe_data.error
       THEN [ error |-> TRUE,
              technology_name |-> technology_name,
              year |-> year,
              project_capacity_mw |-> project_capacity_mw,
              region_evaluated |-> region,
              time_of_day_evaluated |-> time_of_day,
              lcoe_data |-> lcoe_data ]
       ELSE
       LET market_price == get_energy_price(self.market_simulator, region, time_of_day,
                                            DefaultBasePrice)
           profit_margin == market_price - lcoe_data.lcoe_usd_per_mwh
           annual_generation_mwh ==
               (project_capacity_mw * capacity_factor_pct * HOURS_PER_YEAR) \div 100
           projected_annual_profit_usd == (profit_margin * annual_generation_mwh) \div 100
           initial_investment_usd == lcoe_data.capex_usd_per_kw * project_capacity_mw * 10
           annual_net_cash_flow_usd == projected_annual_profit_usd + 0 + 0
           simple_payback_period_years ==
               SimplePayback(project_capacity_mw, initial_investment_usd,
                             annual_net_cash_flow_usd)
           npv_usd ==
               IF economic_lifetime_years > 0
               THEN calculate_npv(initial_investment_usd, annual_net_cash_flow_usd,
                                  economic_lifetime_years, discount_rate_pct)
               ELSE IF initial_investment_usd = 0 /\ annual_net_cash_flow_usd = 0 THEN 0
               ELSE 0 - initial_investment_usd
       IN [ error |-> FALSE,
            technology_name |-> technology_name,
            year |-> year,
            project_capacity_mw |-> project_capacity_mw,
            region_evaluated |-> region,
            time_of_day_evaluated |-> time_of_day,
            lcoe_data |-> lcoe_data,
            market_price_from_simulator_usd_per_mwh |-> market_price,
            profit_margin_usd_per_mwh |-> profit_margin,
            projected_annual_profit_usd |-> projected_annual_profit_usd,
            total_ancillary_revenue_usd_per_year |-> 0,
            carbon_credit_revenue_usd_per_year |-> 0,
            initial_investment_usd |-> initial_investment_usd,
            annual_net_cash_flow_usd |-> annual_net_cash_flow_usd,
            simple_payback_period_years |-> simple_payback_period_years,
            npv_usd |-> npv_usd,
            attractiveness_score |-> profit_margin ]

(***************************************************************************)
(* InvestmentDecisionModel.decide_investments                              *)
(***************************************************************************)
\* investment_decision_model.py:90-93, in MW / percent / years
ReferenceCapacityMW == 50
DefaultCapacityFactorPct == 20
DefaultDiscountRatePct == 5
DefaultEconomicLifetimeYears == 25

\* the project metrics decide_investments asks for
ReferenceProjectMetrics(self, year, region_name, tech_name) ==
    evaluate_project_attractiveness(self, tech_name, year, ReferenceCapacityMW,
                                    DefaultCapacityFactorPct, DefaultDiscountRatePct,
                                    DefaultEconomicLifetimeYears, region_name, "mid_peak")

\* investment_decision_model.py:140: if npv > 0
ProfitMarginIsPositive(project_metrics) == project_metrics.attractiveness_score > 0
ProjectIsAttractive(project_metrics) == project_metrics.npv_usd > 0

\* the body of the try block for one (region, technology) pair:
\* "raised", "skip" (continue), "invest" or "no_invest"
PairDecision(self, flt, year, region_name, tech_name) ==
    IF <<region_name, tech_name>> \in DOMAIN flt THEN "raised"
    ELSE IF get_technology_details(self.solar_tech_model, tech_name, year).error THEN "skip"
    ELSE LET project_metrics == ReferenceProjectMetrics(self, year, region_name, tech_name)
         IN IF project_metrics.error THEN "skip"
            ELSE IF ProjectIsAttractive(project_metrics) THEN "invest"
            ELSE "no_invest"

\* where the technology loop would go on if the handler enclosed the whole loop
ResumeAfterRegionException(technologies_list, i) == Len(technologies_list) + 1

\* where the technology loop of a region goes on after an exception that
\* "except Exception" (investment_decision_model.py:149) has caught: at the
\* next technology
ResumeAfterPairException(technologies_list, i) == i + 1

\* the technology loop of one region from position i on; acc is investments_made[region_name]
RECURSIVE DecideRegion(_, _, _, _, _, _, _)
DecideRegion(self, flt, year, region_name, technologies_list, i, acc) ==
    IF i > Len(technologies_list) THEN acc
    ELSE LET tech_name == technologies_list[i]
             decision == PairDecision(self, flt, year, region_name, tech_name)
         IN IF decision = "raised"
            THEN DecideRegion(self, flt, year, region_name, technologies_list,
                              ResumeAfterPairException(technologies_list, i), acc)
            ELSE IF decision = "invest"
            THEN DecideRegion(self, flt, year, region_name, technologies_list, i + 1,
                              DictPut(acc, tech_name,
                                      DictGet(acc, tech_name, 0) + ReferenceCapacityMW))
            ELSE DecideRegion(self, flt, year, region_name, technologies_list, i + 1, acc)

\* InvestmentDecisionModel.decide_investments: investments_made
decide_investments(self, flt, year, regions_list, technologies_list) ==
    [region_name \in {regions_list[i] : i \in 1..Len(regions_list)} |->
        DecideRegion(self, flt, year, region_name, technologies_list, 1, EmptyDict)]

(***************************************************************************)
(* MarketSimulator.simulate_dispatch_for_year.  Energy is in MWh.           *)
(***************************************************************************)
\* market_model.py:92-93, in percent
DEFAULT_PV_CAPACITY_FACTOR_PCT == 20
DEFAULT_BATTERY_EFFECTIVE_CF_PCT == 10

\* market_model.py:97-102
EmptyOutcome ==
    [ total_generation_mwh |-> EmptyDict,
      annual_demand_mwh |-> 0,
      total_dispatched_generation_mwh |-> 0,
      unmet_demand_mwh |-> 0 ]

\* market_model.py:138-148
PotentialAnnualGenerationMWh(tech_name, capacity_mw) ==
    IF "BATTERY" \in NameMarkers(tech_name)
    THEN (capacity_mw * DEFAULT_BATTERY_EFFECTIVE_CF_PCT * HOURS_PER_YEAR) \div 100
    ELSE (capacity_mw * DEFAULT_PV_CAPACITY_FACTOR_PCT * HOURS_PER_YEAR) \div 100

\* market_model.py:122-157: the loop over installed_capacities.items(), visited
\* in the order of visit_order, from position i on.  The result is the list
\* dispatchable_techs, or the exception that a (region, technology) pair
\* raised: the loop has no handler.
RECURSIVE DispatchableTechs(_, _, _, _, _, _, _, _)
DispatchableTechs(techs, flt, year, region_name, installed_capacities, visit_order, i, acc) ==
    IF i > Len(visit_order) THEN [raised |-> "", list |-> acc]
    ELSE LET tech_name == visit_order[i]
             rest(a) == DispatchableTechs(techs, flt, year, region_name, installed_capacities,
                                          visit_order, i + 1, a)
         IN IF tech_name \notin DOMAIN installed_capacities THEN rest(acc)
            ELSE IF installed_capacities[tech_name] <= 0 THEN rest(acc)
            ELSE IF <<region_name, tech_name>> \in DOMAIN flt
            THEN [raised |-> flt[<<region_name, tech_name>>], list |-> <<>>]
            ELSE LET tech_details == get_technology_details(techs, tech_name, year)
                     potential_mwh == PotentialAnnualGenerationMWh(
                                          tech_name, installed_capacities[tech_name])
                 IN IF tech_details.error THEN rest(acc)
                    ELSE IF ~tech_details.is_commercially_available THEN rest(acc)
                    ELSE IF potential_mwh > 0
                    THEN rest(Append(acc, [name |-> tech_name, potential_mwh |-> potential_mwh]))
                    ELSE rest(acc)

\* dispatching a technology's whole potential, whatever demand is left
WholePotential(a, b) == a
Min(a, b) == IF a <= b THEN a ELSE b
Max(a, b) == IF a >= b THEN a ELSE b

\* a dispatch that stops after the first technology of the list
DispatchFirstTechnologyOnly(dispatchable_techs, annual_demand_mwh, i, acc) ==
    IF Len(dispatchable_techs) = 0 \/ annual_demand_mwh <= 0 THEN acc
    ELSE LET tech == dispatchable_techs[1]
             generation_to_dispatch == Min(tech.potential_mwh, annual_demand_mwh)
         IN IF generation_to_dispatch > 0
            THEN [acc EXCEPT
                    !.total_generation_mwh = DictPut(@, tech.name, generation_to_dispatch),
                    !.total_dispatched_generation_mwh = generation_to_dispatch]
            ELSE acc

\* market_model.py:163-173: the merit-order loop from position i on
RECURSIVE MeritOrderDispatch(_, _, _, _)
MeritOrderDispatch(dispatchable_techs, annual_demand_mwh, i, acc) ==
    IF i > Len(dispatchable_techs) THEN acc
    ELSE IF acc.total_dispatched_generation_mwh >= annual_demand_mwh THEN acc
    ELSE LET tech == dispatchable_techs[i]
             generation_to_dispatch ==
                 Min(tech.potential_mwh, annual_demand_mwh - acc.total_dispatched_generation_mwh)
         IN MeritOrderDispatch(dispatchable_techs, annual_demand_mwh, i + 1,
                IF generation_to_dispatch > 0
                THEN [acc EXCEPT
                        !.total_generation_mwh = DictPut(@, tech.name, generation_to_dispatch),
                        !.total_dispatched_generation_mwh = @ + generation_to_dispatch]
                ELSE acc)

\* a dispatch that leaves a region without installed capacity as it leaves a
\* region without grid data: with the unmet demand of the empty record
DispatchLeavingUnmetAtZero(techs, rd, cd, flt, year, region_name, visit_order) ==
    IF region_name \notin DOMAIN rd THEN [raised |-> "", outcome |-> EmptyOutcome]
    ELSE
    LET annual_demand_mwh == rd[region_name].current_load_mw * HOURS_PER_YEAR
        installed_capacities == get_current_capacity_by_tech(rd, cd, region_name)
        with_demand == [EmptyOutcome EXCEPT !.annual_demand_mwh = annual_demand_mwh]
        d == DispatchableTechs(techs, flt, year, region_name, installed_capacities,
                               visit_order, 1, <<>>)
        dispatched == MeritOrderDispatch(d.list, annual_demand_mwh, 1, with_demand)
    IN IF d.raised # "" THEN [raised |-> d.raised, outcome |-> EmptyOutcome]
       ELSE IF d.list = <<>> THEN [raised |-> "", outcome |-> with_demand]
       ELSE [raised |-> "",
             outcome |-> [dispatched EXCEPT !.unmet_demand_mwh =
                 Max(0, annual_demand_mwh - dispatched.total_dispatched_generation_mwh)]]

\* market_model.py:96-177: one iteration of the loop over regions
DispatchRegion(techs, rd, cd, flt, year, region_name, visit_order) ==
    IF region_name \notin DOMAIN rd THEN [raised |-> "", outcome |-> EmptyOutcome]
    ELSE
    LET annual_demand_mwh == rd[region_name].current_load_mw * HOURS_PER_YEAR
        installed_capacities == get_current_capacity_by_tech(rd, cd, region_name)
        with_demand == [EmptyOutcome EXCEPT !.annual_demand_mwh = annual_demand_mwh]
    IN IF DOMAIN installed_capacities = {}
       THEN [raised |-> "",
             outcome |-> [with_demand EXCEPT !.unmet_demand_mwh = annual_demand_mwh]]
       ELSE LET d == DispatchableTechs(techs, flt, year, region_name, installed_capacities,
                                       visit_order, 1, <<>>)
                dispatched == MeritOrderDispatch(d.list, annual_demand_mwh, 1, with_demand)
            IN IF d.raised # "" THEN [raised |-> d.raised, outcome |-> EmptyOutcome]
               ELSE [raised |-> "",
                     outcome |-> [dispatched EXCEPT !.unmet_demand_mwh =
                         Max(0, annual_demand_mwh - dispatched.total_dispatched_generation_mwh)]]

\* the loop over regions from position i on
RECURSIVE DispatchRegions(_, _, _, _, _, _, _, _, _)
DispatchRegions(techs, rd, cd, flt, year, regions_list, visit_order, i, acc) ==
    IF i > Len(regions_list) THEN [raised |-> "", market_outcomes |-> acc]
    ELSE LET r == DispatchRegion(techs, rd, cd, flt, year, regions_list[i], visit_order)
         IN IF r.raised # "" THEN [raised |-> r.raised, market_outcomes |-> EmptyDict]
            ELSE DispatchRegions(techs, rd, cd, flt, year, regions_list, visit_order, i + 1,
                                 DictPut(acc, regions_list[i], r.outcome))

\* MarketSimulator.simulate_dispatch_for_year: the exception it raises ("" for
\* none) and the market_outcomes it returns
simulate_dispatch_for_year(techs, rd, cd, flt, year, regions_list, visit_order) ==
    DispatchRegions(techs, rd, cd, flt, year, regions_list, visit_order, 1, EmptyDict)

\* no technology, no market design, no fault
EnvIdle ==
    /\ technologies = EmptyDict
    /\ market_designs = EmptyDict
    /\ faults = EmptyDict

\* no engine has been constructed
EngineIdle ==
    /\ config = EmptyDict
    /\ pc = "NoEngine"
    /\ current_year = 0
    /\ results = <<>>
    /\ yearly_investments = EmptyDict
    /\ yearly_outcomes = EmptyDict
    /\ phase_log = <<>>

(***************************************************************************)
(* CostSpec: a cost ledger under arbitrary calls of its operations.        *)
(***************************************************************************)
\* initial_costs of the ledgers considered (test_cost_model.py:12-18, 58-59)
InitialCostsOptions ==
    { [k \in CAPEX_COMPONENT_KEYS \cup {"opex_per_kw_year"} |->
          CASE k = "module_usd_per_kw" -> 20000
            [] k = "bos_usd_per_kw" -> 15000
            [] k = "inverter_usd_per_kw" -> 10000
            [] k = "installation_usd_per_kw" -> 15000
            [] OTHER -> 2000],
      [k \in {"bos_usd_per_kw", "opex_per_kw_year"} |->
          IF k = "bos_usd_per_kw" THEN 10000 ELSE 1000] }

\* collaborators considered: none; the reference material unknown; known with
\* some answer of get_material_availability and some concentration assessment
SupplyChainOptions ==
    { NoSupplyChainModel,
      [NoSupplyChainModel EXCEPT !.present = TRUE, !.assessment = "Highly concentrated"],
      [NoSupplyChainModel EXCEPT !.present = TRUE, !.material_known = TRUE] }
    \cup
    { [present |-> TRUE, material_known |-> TRUE, material_global_capacity |-> 1000,
       available |-> a.available, shortfall |-> a.shortfall, surplus |-> a.surplus,
       assessment |-> c]
        : a \in { [available |-> TRUE,  shortfall |-> 0,   surplus |-> 500],
                  [available |-> TRUE,  shortfall |-> 0,   surplus |-> 50],
                  [available |-> FALSE, shortfall |-> 100, surplus |-> 0],
                  [available |-> FALSE, shortfall |-> 250, surplus |-> 0],
                  [available |-> FALSE, shortfall |-> 300, surplus |-> 0] },
          c \in {"Moderately concentrated", "Unconcentrated (Competitive)"} }

CostSpecInit ==
    /\ \E initial_costs \in InitialCostsOptions, lr \in {0, 50} :
          cost_model = CostModelInit(initial_costs, lr, 1)
    /\ supply_chain_model \in SupplyChainOptions
    /\ GridInit(EmptyDict)
    /\ EnvIdle
    /\ EngineIdle
    /\ op = NoCall
    /\ ret = NoValue
    /\ n_calls = 0
    /\ direct_solar = EmptyDict

CallUpdateCostComponent ==
    \E component_name \in {"module_usd_per_kw", "capex_per_kw", "opex_per_kw_year", "tax_usd_per_kw"},
       new_value \in {30000} :
        /\ n_calls < MaxCalls
        /\ n_calls' = n_calls + 1
        /\ cost_model' = update_cost_component(cost_model, component_name, new_value)
        /\ op' = [name |-> "update_cost_component", component |-> component_name,
                  value |-> new_value]
        /\ ret' = NoValue
        /\ UNCHANGED <<supply_chain_model, costIdleVars>>

CallApplyLearningCurve ==
    \E volume \in {1, 2, 4} :
        /\ n_calls < MaxCalls
        /\ n_calls' = n_calls + 1
        /\ cost_model' = apply_learning_curve(cost_model, volume)
        /\ op' = [name |-> "apply_learning_curve", volume |-> volume]
        /\ ret' = NoValue
        /\ UNCHANGED <<supply_chain_model, costIdleVars>>

CallAdjustCostsBasedOnSupplyChain ==
    /\ n_calls < MaxCalls
    /\ n_calls' = n_calls + 1
    /\ cost_model' = adjust_costs_based_on_supply_chain(cost_model, supply_chain_model)
    /\ op' = [name |-> "adjust_costs_based_on_supply_chain"]
    /\ ret' = NoValue
    /\ UNCHANGED <<supply_chain_model, costIdleVars>>

CallCostUpdateForYear ==
    \E volume \in {NoVolume, 2} :
        /\ n_calls < MaxCalls
        /\ n_calls' = n_calls + 1
        /\ cost_model' = cost_update_for_year(cost_model, supply_chain_model, volume)
        /\ op' = [name |-> "update_for_year", volume |-> volume]
        /\ ret' = [d |-> cost_model'.current_costs]
        /\ UNCHANGED <<supply_chain_model, costIdleVars>>

CostSpecNext ==
    \/ CallUpdateCostComponent
    \/ CallApplyLearningCurve
    \/ CallAdjustCostsBasedOnSupplyChain
    \/ CallCostUpdateForYear

CostSpec == CostSpecInit /\ [][CostSpecNext]_vars

\* C5 (as claimed): after construction and after any sequence of
\* update_cost_component, apply_learning_curve, adjust_costs_based_on_supply_chain
\* and update_for_year calls, capex_per_kw is the sum of the capital-cost
\* components the ledger holds.
C5_CapexIsSumOfComponents ==
    cost_model.current_costs["capex_per_kw"] =
        SumOver(cost_model.current_costs, CAPEX_COMPONENT_KEYS \cap DOMAIN cost_model.current_costs)

\* C13: apply_learning_curve called with a cumulative volume that is at most the
\* ledger's current cumulative volume changes nothing in the ledger (every cost
\* component, the total capex and the current volume stay), and no operation of
\* the ledger ever lowers the current cumulative volume.
C13_NoLearningWithoutNewVolume ==
    /\ [][(op'.name = "apply_learning_curve"
              /\ op'.volume <= cost_model.current_production_volume)
            => cost_model' = cost_model]_vars
    /\ [][cost_model'.current_production_volume >= cost_model.current_production_volume]_vars

C13_Witness ==
    /\ op.name = "apply_learning_curve"
    /\ cost_model.learning_rate_pct > 0
    /\ op.volume > cost_model.initial_production_volume
    /\ op.volume < cost_model.current_production_volume
    /\ "module_usd_per_kw" \in DOMAIN cost_model.current_costs

\* C24: adjust_costs_based_on_supply_chain on a ledger without supply-chain
\* collaborator, or without module cost component, leaves every entry of
\* current_costs as it was: every component, the total capex and the operating
\* cost; the rest of the ledger stays as well.
C24_NoAdjustmentWithoutCollaboratorOrModule ==
    [][(/\ op'.name = "adjust_costs_based_on_supply_chain"
        /\ \/ ~supply_chain_model.present
           \/ "module_usd_per_kw" \notin DOMAIN cost_model.current_costs)
       => /\ cost_model'.current_costs = cost_model.current_costs
          /\ cost_model' = cost_model]_vars

\* an adjustment asked of a ledger without module cost whose collaborator
\* reports a risk, after the ledger's costs were changed by a learning step
C24_Witness ==
    /\ op.name = "adjust_costs_based_on_supply_chain"
    /\ supply_chain_model.present
    /\ MaterialAdjustmentPct(supply_chain_model) + ConcentrationAdjustmentPct(supply_chain_model) > 0
    /\ "module_usd_per_kw" \notin DOMAIN cost_model.current_costs
    /\ cost_model.current_costs["capex_per_kw"] > 0
    /\ cost_model.current_costs # cost_model.initial_costs_snapshot

\* C25: adjust_costs_based_on_supply_chain on a ledger with a collaborator and a
\* module cost sets the module cost to (module cost before) * (1 + m + c).  m is
\* 0 for an unknown material or a zero global capacity; for an unavailable
\* material it is the high surcharge when the shortfall is more than 0.5 of the
\* required quantity, the medium one when it is more than 0.2, the low one
\* otherwise; for an available material it is the tight-surplus surcharge when
\* the surplus is below 10% of the global capacity and 0 otherwise.  c is the
\* high surcharge for "Highly concentrated", the moderate one for "Moderately
\* concentrated" and 0 otherwise.  No other component changes and no key is
\* added or removed; the total capex is summed anew from the components when a
\* surcharge applies and stays otherwise.
C25_ModuleCostTimesOnePlusSurcharges ==
    [][(/\ op'.name = "adjust_costs_based_on_supply_chain"
        /\ supply_chain_model.present
        /\ "module_usd_per_kw" \in DOMAIN cost_model.current_costs)
       => LET scm == supply_chain_model
              before == cost_model.current_costs
              after == cost_model'.current_costs
              required == (scm.material_global_capacity
                              * DEFAULT_REQUIRED_MATERIAL_FRACTION_OF_GLOBAL_PCT) \div 100
              m == IF ~scm.material_known \/ scm.material_global_capacity = 0 THEN 0
                   ELSE IF ~scm.available
                   THEN (IF 10 * scm.shortfall > 5 * required
                         THEN MATERIAL_SHORTFALL_HIGH_IMPACT_PCT
                         ELSE IF 10 * scm.shortfall > 2 * required
                         THEN MATERIAL_SHORTFALL_MEDIUM_IMPACT_PCT
                         ELSE MATERIAL_SHORTFALL_LOW_IMPACT_PCT)
                   ELSE (IF 100 * scm.surplus < 10 * scm.material_global_capacity
                         THEN MATERIAL_TIGHT_SURPLUS_IMPACT_PCT
                         ELSE 0)
              c == IF scm.assessment = "Highly concentrated"
                   THEN CONCENTRATION_HIGH_IMPACT_PCT
                   ELSE IF scm.assessment = "Moderately concentrated"
                   THEN CONCENTRATION_MODERATE_IMPACT_PCT
                   ELSE 0
          IN /\ after["module_usd_per_kw"] =
                    (before["module_usd_per_kw"] * (100 + m + c)) \div 100
             /\ DOMAIN after = DOMAIN before
             /\ \A k \in DOMAIN before \ {"module_usd_per_kw", "capex_per_kw"} :
                    after[k] = before[k]
             /\ after["capex_per_kw"] =
                    IF m + c > 0
                    THEN SumOver(after, CAPEX_COMPONENT_KEYS \cap DOMAIN after)
                    ELSE before["capex_per_kw"]]_vars

\* a first adjustment with a shortfall of exactly 0.2 of the required quantity
\* and a moderately concentrated market: the low and the moderate surcharge
C25_Witness ==
    /\ op.name = "adjust_costs_based_on_supply_chain"
    /\ n_calls = 1
    /\ supply_chain_model.present
    /\ supply_chain_model.material_known
    /\ ~supply_chain_model.available
    /\ 10 * supply_chain_model.shortfall =
           2 * ((supply_chain_model.material_global_capacity
                    * DEFAULT_REQUIRED_MATERIAL_FRACTION_OF_GLOBAL_PCT) \div 100)
    /\ supply_chain_model.assessment = "Moderately concentrated"
    /\ "module_usd_per_kw" \in DOMAIN cost_model.current_costs
    /\ cost_model.current_costs["module_usd_per_kw"] =
           (cost_model.initial_costs_snapshot["module_usd_per_kw"]
               * (100 + MATERIAL_SHORTFALL_LOW_IMPACT_PCT + CONCENTRATION_MODERATE_IMPACT_PCT))
           \div 100
    /\ cost_model.current_costs["module_usd_per_kw"] >
           cost_model.initial_costs_snapshot["module_usd_per_kw"]

\* C28: no operation of the ledger changes the initial-cost snapshot, the
\* initial volume or the learning rate, and a successful apply_learning_curve(v)
\* leaves every capital-cost component at snapshot cost * (v / initial
\* volume)^b, whatever the ledger's current costs were: the components and the
\* total capex after the call are those of a ledger newly built from the same
\* snapshot on which apply_learning_curve(v) is the first call.
C28_LearningFromSnapshotOnly ==
    /\ [][/\ cost_model'.initial_costs_snapshot = cost_model.initial_costs_snapshot
           /\ cost_model'.initial_production_volume = cost_model.initial_production_volume
           /\ cost_model'.learning_rate_pct = cost_model.learning_rate_pct]_vars
    /\ [][(/\ op'.name = "apply_learning_curve"
            /\ op'.volume > cost_model.current_production_volume)
           => LET snapshot == cost_model.initial_costs_snapshot
                  after == cost_model'.current_costs
                  fresh == CostModelInit(
                               [k \in DOMAIN snapshot \ {"capex_per_kw"} |-> snapshot[k]],
                               cost_model.learning_rate_pct,
                               cost_model.initial_production_volume)
                  other == apply_learning_curve(fresh, op'.volume).current_costs
              IN /\ \A k \in CAPEX_COMPONENT_KEYS \cap DOMAIN after :
                        /\ after[k] = LearnedCost(snapshot[k], op'.volume,
                                                  cost_model.initial_production_volume,
                                                  cost_model.learning_rate_pct)
                        /\ after[k] = other[k]
                 /\ after["capex_per_kw"] = other["capex_per_kw"]
                 /\ DOMAIN after = DOMAIN other]_vars

\* a successful learning step as the second call on a ledger with a learning
\* rate: the module cost is half the snapshot's at twice the initial volume
C28_Witness ==
    /\ op.name = "apply_learning_curve"
    /\ n_calls = 2
    /\ cost_model.learning_rate_pct > 0
    /\ cost_model.current_production_volume = op.volume
    /\ op.volume = 2 * cost_model.initial_production_volume
    /\ "module_usd_per_kw" \in DOMAIN cost_model.current_costs
    /\ 2 * cost_model.current_costs["module_usd_per_kw"] =
           cost_model.initial_costs_snapshot["module_usd_per_kw"]
    /\ cost_model.current_costs["opex_per_kw_year"] #
           cost_model.initial_costs_snapshot["opex_per_kw_year"]

(***************************************************************************)
(* GridSpec: a grid ledger under arbitrary calls of its operations.        *)
(***************************************************************************)
\* initial_regional_data of the ledgers considered
GridInputOptions ==
    { [r \in {"USA", "China"} |->
          [existing_capacity_mw |-> IF r = "USA" THEN 200 ELSE 100,
           current_load_mw |-> IF r = "USA" THEN 15 ELSE 10,
           max_solar_penetration_pct |-> DefaultMaxSolarPenetrationPct,
           current_solar_mw |-> IF r = "China" THEN s ELSE 0,
           own_caps |-> (r \in own)]]
        : s \in {0, ReferenceCapacityMW}, own \in {{}, {"USA"}, {"USA", "China"}} }

\* new_capacity_details of the add_new_capacity calls considered
TechInvestmentOptions ==
    { [t \in {"TOPCon_PV"} |-> ReferenceCapacityMW],
      [t \in {"LFP_Battery", "TOPCon_PV"} |->
          IF t = "TOPCon_PV" THEN 0 ELSE ReferenceCapacityMW],
      [t \in {"Solar_Battery_Hybrid"} |-> ReferenceCapacityMW] }

CapacityDetailsOptions ==
    { [r \in {region} |-> ti] : region \in RegionNames, ti \in TechInvestmentOptions }
    \cup
    { [r \in {"USA", other} |-> [t \in {"TOPCon_PV"} |-> ReferenceCapacityMW]]
        : other \in {"China", "Atlantis"} }

GridSpecInit ==
    /\ \E initial_regional_data \in GridInputOptions : GridInit(initial_regional_data)
    /\ CostIdle
    /\ EnvIdle
    /\ EngineIdle
    /\ op = NoCall
    /\ ret = NoValue
    /\ n_calls = 0
    /\ direct_solar = [r \in DOMAIN regional_data |-> regional_data[r].current_solar_mw]

CallAddNewCapacity ==
    \E details \in CapacityDetailsOptions :
        LET s == add_new_capacity(regional_data, cap_dicts, details, DOMAIN details)
        IN /\ n_calls < MaxCalls
           /\ n_calls' = n_calls + 1
           /\ regional_data' = s[1]
           /\ cap_dicts' = s[2]
           /\ op' = [name |-> "add_new_capacity", details |-> details]
           /\ ret' = NoValue
           /\ UNCHANGED <<direct_solar, gridIdleVars>>

CallAddSolarCapacity ==
    \E r \in RegionNames :
        LET rd == add_solar_capacity(regional_data, r, ReferenceCapacityMW)
        IN /\ n_calls < MaxCalls
           /\ n_calls' = n_calls + 1
           /\ regional_data' = rd
           /\ op' = [name |-> "add_solar_capacity", region |-> r, mw |-> ReferenceCapacityMW]
           /\ ret' = NoValue
           /\ direct_solar' = IF r \in DOMAIN direct_solar
                               THEN [direct_solar EXCEPT ![r] = @ + ReferenceCapacityMW]
                               ELSE direct_solar
           /\ UNCHANGED <<cap_dicts, gridIdleVars>>

CallGetMaxSolarPenetration ==
    \E r \in RegionNames :
        /\ op' = [name |-> "get_max_solar_penetration_mw", region |-> r]
        /\ ret' = [v |-> get_max_solar_penetration_mw(regional_data, r)]
        /\ UNCHANGED <<gridVars, n_calls, direct_solar, gridIdleVars>>

CallGetCurrentSolar ==
    \E r \in RegionNames :
        /\ op' = [name |-> "get_current_solar_mw", region |-> r]
        /\ ret' = [v |-> get_current_solar_mw(regional_data, r)]
        /\ UNCHANGED <<gridVars, n_calls, direct_solar, gridIdleVars>>

CallGetCurrentCapacityByTech ==
    \E r \in RegionNames :
        /\ op' = [name |-> "get_current_capacity_by_tech", region |-> r]
        /\ ret' = [d |-> get_current_capacity_by_tech(regional_data, cap_dicts, r)]
        /\ UNCHANGED <<gridVars, n_calls, direct_solar, gridIdleVars>>

CallCalculateInterconnectionCosts ==
    \E r \in RegionNames :
        /\ op' = [name |-> "calculate_interconnection_costs", region |-> r,
                  mw |-> ReferenceCapacityMW]
        /\ ret' = calculate_interconnection_costs(regional_data, r, ReferenceCapacityMW,
                                                  DefaultDistanceKm)
        /\ UNCHANGED <<gridVars, n_calls, direct_solar, gridIdleVars>>

\* the additions asked about: none, one MW, the reference project and one MW
\* less or more, two reference projects
AdditionOptions ==
    {0, 1, ReferenceCapacityMW - 1, ReferenceCapacityMW, ReferenceCapacityMW + 1,
     2 * ReferenceCapacityMW}

CallCheckGridConstraints ==
    \E r \in RegionNames, x \in AdditionOptions :
        /\ op' = [name |-> "check_grid_constraints", region |-> r, mw |-> x]
        /\ ret' = [b |-> check_grid_constraints(regional_data, r, x)]
        /\ UNCHANGED <<gridVars, n_calls, direct_solar, gridIdleVars>>

GridSpecNext ==
    \/ CallAddNewCapacity
    \/ CallAddSolarCapacity
    \/ CallGetMaxSolarPenetration
    \/ CallGetCurrentSolar
    \/ CallGetCurrentCapacityByTech
    \/ CallCalculateInterconnectionCosts
    \/ CallCheckGridConstraints

GridSpec == GridSpecInit /\ [][GridSpecNext]_vars

(***************************************************************************)
(* Properties of the grid ledger (GridSpec).                               *)
(***************************************************************************)
\* the sum of a region's per-technology capacities over the solar-classified names
SolarTechSum(region_name) ==
    LET d == get_current_capacity_by_tech(regional_data, cap_dicts, region_name)
    IN SumOver(d, {t \in DOMAIN d : IsSolarPV(t)})

\* C6 (as claimed): in every region of the ledger the aggregate current solar
\* capacity equals the sum of the region's per-technology capacities over the
\* solar-classified technologies.  Stated here for the ledgers whose aggregate
\* was never set without a per-technology entry (no initial current_solar_mw,
\* no add_solar_capacity call), where the claim is at its weakest.
C6_SolarEqualsSolarTechSum ==
    (\A r \in DOMAIN regional_data : direct_solar[r] = 0)
        => \A r \in DOMAIN regional_data :
              regional_data[r].current_solar_mw = SolarTechSum(r)

\* the call named by o is about regions the ledger does not hold
UnknownRegionCall(o, rd) ==
    /\ o.name # "none"
    /\ IF o.name = "add_new_capacity"
       THEN DOMAIN o.details \cap DOMAIN rd = {}
       ELSE o.region \notin DOMAIN rd

\* the safe default each operation is claimed to return: zero, false, empty mapping
ClaimedDefault(o, r) ==
    CASE o.name \in {"get_max_solar_penetration_mw", "get_current_solar_mw"} -> r.v = 0
      [] o.name = "calculate_interconnection_costs" -> ~r.inf /\ r.v = 0
      [] o.name = "check_grid_constraints" -> r.b = FALSE
      [] o.name = "get_current_capacity_by_tech" -> DOMAIN r.d = {}
      [] OTHER -> TRUE

\* the default each operation does return: as claimed, except that the
\* interconnection cost of an unknown region is +infinity
ActualDefault(o, r) ==
    IF o.name = "calculate_interconnection_costs" THEN r.inf
    ELSE ClaimedDefault(o, r)

\* C10 (as claimed): every grid operation called with a region the ledger does
\* not hold leaves the ledger unchanged and returns zero, false or an empty mapping.
C10_UnknownRegionZeroDefault ==
    [][UnknownRegionCall(op', regional_data)
          => (UNCHANGED gridVars /\ ClaimedDefault(op', ret'))]_vars

\* C10 (amended): every grid operation called with a region the ledger does not
\* hold leaves the ledger unchanged and returns zero (maximum and current solar),
\* false (constraint check), an empty mapping (capacity by technology) or
\* +infinity (interconnection cost).
C10_UnknownRegionSafeDefault ==
    [][UnknownRegionCall(op', regional_data)
          => (UNCHANGED gridVars /\ ActualDefault(op', ret'))]_vars

\* C10 witness: the interconnection cost of an unknown region was asked for
\* and came back infinite
C10_Witness ==
    /\ op.name = "calculate_interconnection_costs"
    /\ op.region \notin DOMAIN regional_data
    /\ ret.inf

\* C12 (as claimed): add_solar_capacity on a region the ledger holds reports
\* success and raises current solar by the amount when the result does not
\* exceed existing_capacity * max_solar_penetration_pct; otherwise it reports
\* failure and leaves current solar as it was.
C12_AddSolarRespectsCeiling ==
    [][(op'.name = "add_solar_capacity" /\ op'.region \in DOMAIN regional_data) =>
          LET region_info == regional_data[op'.region]
              within == ~ExceedsCeiling(region_info.current_solar_mw + op'.mw,
                                        get_max_solar_penetration_mw(regional_data, op'.region))
              solar_after == regional_data'[op'.region].current_solar_mw
          IN IF within
             THEN ret' = [b |-> TRUE] /\ solar_after = region_info.current_solar_mw + op'.mw
             ELSE ret' = [b |-> FALSE] /\ solar_after = region_info.current_solar_mw]_vars

\* C11: for a region the ledger holds and an addition x >= 0,
\* check_grid_constraints answers false exactly when current_solar + x exceeds
\* existing_capacity * max_solar_penetration_pct, so that an addition landing
\* on the ceiling is permitted; and the call changes nothing in the ledger.
C11_CheckIsCeilingComparison ==
    /\ []((op.name = "check_grid_constraints" /\ op.region \in DOMAIN regional_data) =>
            LET region_info == regional_data[op.region]
            IN ret.b = ~((region_info.current_solar_mw + op.mw) * 100 >
                             region_info.existing_capacity_mw
                                 * region_info.max_solar_penetration_pct))
    /\ [][op'.name = "check_grid_constraints" => UNCHANGED gridVars]_vars

\* a check that was asked for an addition landing exactly on the ceiling of a
\* region that already has solar capacity, and permitted it
C11_Witness ==
    /\ op.name = "check_grid_constraints"
    /\ op.region \in DOMAIN regional_data
    /\ op.mw > 0
    /\ regional_data[op.region].current_solar_mw > 0
    /\ regional_data[op.region].current_solar_mw + op.mw =
           get_max_solar_penetration_mw(regional_data, op.region)
    /\ ret.b

\* C27 (as claimed): add_new_capacity changes the capacity by technology and the
\* solar total of no region but those named in its argument: every loaded
\* region that the argument does not name answers get_current_capacity_by_tech
\* and get_current_solar_mw after the call as before it.
C27_RegionsAreIsolated ==
    [][op'.name = "add_new_capacity" =>
          \A r \in DOMAIN regional_data \ DOMAIN op'.details :
              /\ get_current_capacity_by_tech(regional_data', cap_dicts', r) =
                     get_current_capacity_by_tech(regional_data, cap_dicts, r)
              /\ get_current_solar_mw(regional_data', r) =
                     get_current_solar_mw(regional_data, r)]_vars

(***************************************************************************)
(* The configuration of run_full_simulation.py, reduced to two regions     *)
(* and three technologies.                                                 *)
(***************************************************************************)
StartYear == 2025
Years == StartYear .. (StartYear + MaxYears - 1)

\* run_full_simulation.py:38-70; Solar_Battery_Hybrid stands for a technology
\* that reaches commercial scale only after the first simulated year
TechRegistry ==
    [n \in {"TOPCon_PV", "LFP_Battery", "Solar_Battery_Hybrid"} |->
        CASE n = "TOPCon_PV" ->
                [start_year |-> 2022, commercial_scale_year |-> 2022,
                 base_efficiency |-> 2400, projected_efficiency_2035 |-> 2790,
                 base_capex_usd_per_kw |-> 65000, annual_capex_reduction_pct |-> 2]
          [] n = "LFP_Battery" ->
                [start_year |-> 2018, commercial_scale_year |-> 2018,
                 base_efficiency |-> 9000, projected_efficiency_2035 |-> 9170,
                 base_capex_usd_per_kw |-> 40000, annual_capex_reduction_pct |-> 3]
          [] OTHER ->
                [start_year |-> 2026, commercial_scale_year |-> 2026,
                 base_efficiency |-> 2500, projected_efficiency_2035 |-> 3200,
                 base_capex_usd_per_kw |-> 90000, annual_capex_reduction_pct |-> 5]]

\* run_full_simulation.py:79-85
ReferenceInitialCosts ==
    [k \in CAPEX_COMPONENT_KEYS \cup {"opex_per_kw_year"} |->
        CASE k = "module_usd_per_kw" -> 65000
          [] k = "bos_usd_per_kw" -> 12000
          [] k = "inverter_usd_per_kw" -> 8000
          [] k = "installation_usd_per_kw" -> 15000
          [] OTHER -> 1500]

ReferenceCostModel == CostModelInit(ReferenceInitialCosts, 50, 50)

\* SupplyChainModel() with its default data: polysilicon with a surplus of half
\* the global capacity, solar modules highly concentrated
ReferenceSupplyChainModel ==
    [present |-> TRUE, material_known |-> TRUE, material_global_capacity |-> 1000,
     available |-> TRUE, shortfall |-> 0, surplus |-> 500,
     assessment |-> "Highly concentrated"]

\* market designs considered (run_full_simulation.py:100-104): a base price per
\* region, a time-of-use multiplier for 'mid_peak', or no design for a region
MarketDesignOptions ==
    { [r \in {"USA", "China"} |->
          [k \in {"base_energy_price_usd_per_mwh"} |-> IF r = "USA" THEN 4000 ELSE 8000]],
      [r \in {"USA"} |->
          [k \in {"base_energy_price_usd_per_mwh", "mid_peak"} |->
              IF k = "mid_peak" THEN 150 ELSE 5000]] }

\* the (region, technology) pairs whose processing raises, with the exception
FaultOptions ==
    { EmptyDict,
      [p \in {<<"USA", "TOPCon_PV">>} |-> "AttributeError"],
      [p \in {<<"USA", "TOPCon_PV">>, <<"China", "LFP_Battery">>} |->
          IF p[1] = "USA" THEN "TypeError" ELSE "AttributeError"] }

RegionsOptions == { <<"USA", "China">>, <<"China", "Atlantis", "USA">> }
TechnologiesOptions ==
    { <<"TOPCon_PV", "LFP_Battery">>,
      <<"LFP_Battery", "Wind", "TOPCon_PV", "Solar_Battery_Hybrid">> }

\* grid data of the two regions as in run_full_simulation.py:142-159: no region
\* brings a capacity dictionary of its own
ReferenceGridOptions ==
    { g \in GridInputOptions : \A r \in DOMAIN g : ~g[r].own_caps }

\* InvestmentDecisionModel's collaborators
InvestmentModelSelf ==
    [solar_tech_model |-> technologies, cost_model |-> cost_model,
     market_simulator |-> market_designs]

(***************************************************************************)
(* InvestSpec: the investment decision model asked for plans, each plan    *)
(* possibly pushed into the grid ledger.                                   *)
(***************************************************************************)
InvestSpecInit ==
    /\ \E g \in ReferenceGridOptions : GridInit(g) /\ direct_solar = [r \in DOMAIN g |-> g[r].current_solar_mw]
    /\ cost_model = ReferenceCostModel
    /\ supply_chain_model = ReferenceSupplyChainModel
    /\ technologies = TechRegistry
    /\ market_designs \in MarketDesignOptions
    /\ faults \in FaultOptions
    /\ EngineIdle
    /\ op = NoCall
    /\ ret = NoValue
    /\ n_calls = 0

CallDecideInvestments ==
    \E year \in Years, regions_list \in RegionsOptions, technologies_list \in TechnologiesOptions :
        /\ op' = [name |-> "decide_investments", year |-> year, regions |-> regions_list,
                  technologies |-> technologies_list]
        /\ ret' = [plan |-> decide_investments(InvestmentModelSelf, faults, year,
                                               regions_list, technologies_list)]
        /\ UNCHANGED <<gridVars, costVars, envVars, n_calls, direct_solar, engineVars>>

CallEvaluateProjectAttractiveness ==
    \E year \in Years, region \in {"USA", "Atlantis"}, tech_name \in {"TOPCon_PV", "Wind"} :
        /\ op' = [name |-> "evaluate_project_attractiveness", year |-> year,
                  region |-> region, technology |-> tech_name]
        /\ ret' = ReferenceProjectMetrics(InvestmentModelSelf, year, region, tech_name)
        /\ UNCHANGED <<gridVars, costVars, envVars, n_calls, direct_solar, engineVars>>

\* GridModel.add_new_capacity with the plan just returned, as
\* SimulationEngine._update_system_state calls it
CallAddPlannedCapacity ==
    /\ op.name = "decide_investments"
    /\ n_calls < MaxCalls
    /\ n_calls' = n_calls + 1
    /\ LET s == add_new_capacity(regional_data, cap_dicts, ret.plan, DOMAIN ret.plan)
       IN /\ regional_data' = s[1]
          /\ cap_dicts' = s[2]
    /\ op' = [name |-> "add_new_capacity", details |-> ret.plan]
    /\ ret' = NoValue
    /\ UNCHANGED <<costVars, envVars, direct_solar, engineVars>>

InvestSpecNext ==
    \/ CallDecideInvestments
    \/ CallEvaluateProjectAttractiveness
    \/ CallAddPlannedCapacity

InvestSpec == InvestSpecInit /\ [][InvestSpecNext]_vars

\* the (region, technology) pairs a decide_investments call was asked about
RequestedPairs(o) ==
    { <<o.regions[i], o.technologies[j]>> : i \in 1..Len(o.regions), j \in 1..Len(o.technologies) }

\* C8: when the evaluation of a (region, technology) pair raises inside
\* decide_investments, that pair gets no investment and every other requested
\* pair gets exactly what it gets when nothing raises; a plan is returned.
C8_FailedPairIsolated ==
    op.name = "decide_investments" =>
        LET undisturbed == decide_investments(InvestmentModelSelf, EmptyDict, op.year,
                                              op.regions, op.technologies)
        IN \A p \in RequestedPairs(op) :
              /\ p[1] \in DOMAIN ret.plan
              /\ IF p \in DOMAIN faults
                 THEN p[2] \notin DOMAIN ret.plan[p[1]]
                 ELSE /\ (p[2] \in DOMAIN ret.plan[p[1]]) = (p[2] \in DOMAIN undisturbed[p[1]])
                      /\ DictGet(ret.plan[p[1]], p[2], 0) = DictGet(undisturbed[p[1]], p[2], 0)

\* a plan in which a pair raised, would have been invested in otherwise, and a
\* technology later in the list got its investment in the same region
C8_Witness ==
    /\ op.name = "decide_investments"
    /\ op.technologies = <<"TOPCon_PV", "LFP_Battery">>
    /\ <<"USA", "TOPCon_PV">> \in DOMAIN faults
    /\ "TOPCon_PV" \in DOMAIN decide_investments(InvestmentModelSelf, EmptyDict, op.year,
                                                  op.regions, op.technologies)["USA"]
    /\ "TOPCon_PV" \notin DOMAIN ret.plan["USA"]
    /\ DictGet(ret.plan["USA"], "LFP_Battery", 0) = ReferenceCapacityMW

\* C9: for every requested pair whose technology the technology model
\* describes, the plan holds the reference capacity if the reference project's
\* NPV is positive and no entry otherwise; a pair is decided as it is when asked
\* about alone, whatever the grid ledger holds; every requested region has an
\* entry.
C9_InvestIffPositiveNPV ==
    op.name = "decide_investments" =>
        /\ DOMAIN ret.plan = {op.regions[i] : i \in 1..Len(op.regions)}
        /\ \A p \in RequestedPairs(op) \ DOMAIN faults :
              LET plan_of_region == ret.plan[p[1]]
                  project_metrics == ReferenceProjectMetrics(InvestmentModelSelf, op.year,
                                                             p[1], p[2])
                  alone == decide_investments(InvestmentModelSelf, faults, op.year,
                                              <<p[1]>>, <<p[2]>>)
              IN /\ IF get_technology_details(technologies, p[2], op.year).error
                    THEN p[2] \notin DOMAIN plan_of_region
                    ELSE IF ~project_metrics.error /\ project_metrics.npv_usd > 0
                    THEN /\ p[2] \in DOMAIN plan_of_region
                         /\ plan_of_region[p[2]] = ReferenceCapacityMW
                    ELSE p[2] \notin DOMAIN plan_of_region
                 /\ plan_of_region = alone[p[1]]
                    \/ DictGet(plan_of_region, p[2], 0) = DictGet(alone[p[1]], p[2], 0)

\* a plan made after capacity was pushed into the ledger that invests in solar
\* in a region whose penetration ceiling is already reached, and leaves out a
\* technology the model describes
C9_Witness ==
    /\ op.name = "decide_investments"
    /\ n_calls > 0
    /\ "China" \in DOMAIN ret.plan
    /\ DictGet(ret.plan["China"], "TOPCon_PV", 0) = ReferenceCapacityMW
    /\ ~check_grid_constraints(regional_data, "China", ReferenceCapacityMW)
    /\ DictGet(get_current_capacity_by_tech(regional_data, cap_dicts, "China"), "TOPCon_PV", 0) > 0
    /\ \E p \in RequestedPairs(op) :
          /\ ~get_technology_details(technologies, p[2], op.year).error
          /\ p[2] \notin DOMAIN ret.plan[p[1]]

(***************************************************************************)
(* EvaluationSpec: the technology registry, the two LCOE operations of the *)
(* cost ledger and evaluate_project_attractiveness, called with regular    *)
(* and with degenerate arguments.                                          *)
(***************************************************************************)
\* the technologies registered as TOPCon_PV: the reference one, and one with
\* each parameter at an edge (efficiencies in 1/10000, capex in cents)
TechnologyOptions ==
    LET reference == TechRegistry["TOPCon_PV"]
    IN { reference,
         [reference EXCEPT !.base_efficiency = 2790, !.projected_efficiency_2035 = 2400],
         [reference EXCEPT !.start_year = EFFICIENCY_ANCHOR_YEAR,
                           !.commercial_scale_year = EFFICIENCY_ANCHOR_YEAR],
         [reference EXCEPT !.start_year = EFFICIENCY_ANCHOR_YEAR + 1,
                           !.commercial_scale_year = EFFICIENCY_ANCHOR_YEAR + 1],
         [reference EXCEPT !.annual_capex_reduction_pct = 0 - 5],
         [reference EXCEPT !.annual_capex_reduction_pct = 100],
         [reference EXCEPT !.annual_capex_reduction_pct = 150],
         [reference EXCEPT !.base_capex_usd_per_kw = 0],
         [reference EXCEPT !.base_capex_usd_per_kw = 0 - 65000] }

\* initial_costs of the ledgers: the reference ones, without operating cost,
\* without capital cost, and without any cost
LedgerCostOptions ==
    { [k \in DOMAIN ReferenceInitialCosts |->
          IF k = "opex_per_kw_year"
          THEN (IF with_opex THEN ReferenceInitialCosts[k] ELSE 0)
          ELSE (IF with_capex THEN ReferenceInitialCosts[k] ELSE 0)]
        : with_capex \in BOOLEAN, with_opex \in BOOLEAN }

\* capacity factor (percent), discount rate (percent) and lifetime (years) of
\* the calls; (1 - 2) ** 2 - 1 is the CRF denominator that is zero, and five
\* years at 5% make the LCOE exceed the market prices
LcoeArgumentOptions ==
    { [capacity_factor_pct |-> cf, discount_rate_pct |-> a[1], economic_lifetime_years |-> a[2]]
        : cf \in {0, DefaultCapacityFactorPct},
          a \in { <<0, 0>>, <<DefaultDiscountRatePct, 0>>,
                  <<0, DefaultEconomicLifetimeYears>>,
                  <<DefaultDiscountRatePct, DefaultEconomicLifetimeYears>>,
                  <<DefaultDiscountRatePct, 5>>, <<0 - 200, 2>> } }

\* the years the registry is asked about: around start_year and around 2035
RegistryYears ==
    { TechRegistry["TOPCon_PV"].start_year - 1, TechRegistry["TOPCon_PV"].start_year,
      TechRegistry["TOPCon_PV"].start_year + 1, TechRegistry["TOPCon_PV"].start_year + 2,
      StartYear, EFFICIENCY_ANCHOR_YEAR - 1, EFFICIENCY_ANCHOR_YEAR,
      EFFICIENCY_ANCHOR_YEAR + 1, EFFICIENCY_ANCHOR_YEAR + 2 }

EvaluationSpecInit ==
    /\ \E tech \in TechnologyOptions : technologies = [n \in {"TOPCon_PV"} |-> tech]
    /\ \E initial_costs \in LedgerCostOptions : cost_model = CostModelInit(initial_costs, 50, 50)
    /\ supply_chain_model = NoSupplyChainModel
    /\ market_designs \in MarketDesignOptions
    /\ faults = EmptyDict
    /\ GridInit(EmptyDict)
    /\ direct_solar = EmptyDict
    /\ EngineIdle
    /\ op = NoCall
    /\ ret = NoValue
    /\ n_calls = 0

CallGetTechnologyDetails ==
    \E tech_name \in {"TOPCon_PV", "Wind"}, year \in RegistryYears :
        /\ op' = [name |-> "get_technology_details", technology |-> tech_name, year |-> year]
        /\ ret' = get_technology_details(technologies, tech_name, year)
        /\ UNCHANGED <<gridVars, costVars, envVars, n_calls, direct_solar, engineVars>>

CallCalculateLcoe ==
    \E a \in LcoeArgumentOptions :
        /\ op' = [name |-> "calculate_lcoe", args |-> a]
        /\ ret' = calculate_lcoe(cost_model, a.capacity_factor_pct, a.discount_rate_pct,
                                 a.economic_lifetime_years)
        /\ UNCHANGED <<gridVars, costVars, envVars, n_calls, direct_solar, engineVars>>

CallCalculateLcoeForEvolvingSolarTech ==
    \E a \in LcoeArgumentOptions, tech_name \in {"TOPCon_PV", "Wind"}, year \in {StartYear} :
        /\ op' = [name |-> "calculate_lcoe_for_evolving_solar_tech", technology |-> tech_name,
                  year |-> year, args |-> a]
        /\ ret' = calculate_lcoe_for_evolving_solar_tech(
                      cost_model, technologies, tech_name, year, a.capacity_factor_pct,
                      a.discount_rate_pct, a.economic_lifetime_years)
        /\ UNCHANGED <<gridVars, costVars, envVars, n_calls, direct_solar, engineVars>>

CallEvaluateProject ==
    \E a \in LcoeArgumentOptions, tech_name \in {"TOPCon_PV", "Wind"}, year \in {StartYear},
       region \in {"USA"}, project_capacity_mw \in {0, ReferenceCapacityMW} :
        /\ op' = [name |-> "evaluate_project_attractiveness", technology |-> tech_name,
                  year |-> year, region |-> region, capacity |-> project_capacity_mw,
                  args |-> a]
        /\ ret' = evaluate_project_attractiveness(
                      InvestmentModelSelf, tech_name, year, project_capacity_mw,
                      a.capacity_factor_pct, a.discount_rate_pct,
                      a.economic_lifetime_years, region, "mid_peak")
        /\ UNCHANGED <<gridVars, costVars, envVars, n_calls, direct_solar, engineVars>>

EvaluationSpecNext ==
    \/ CallGetTechnologyDetails
    \/ CallCalculateLcoe
    \/ CallCalculateLcoeForEvolvingSolarTech
    \/ CallEvaluateProject

EvaluationSpec == EvaluationSpecInit /\ [][EvaluationSpecNext]_vars

(***************************************************************************)
(* Properties of the LCOE operations and of the evaluation                 *)
(* (EvaluationSpec).                                                       *)
(***************************************************************************)
\* C14 (as claimed): in every degenerate case -- zero lifetime with positive
\* capex at a zero or a positive discount rate, zero generation with a positive
\* cost, a zero CRF denominator with positive capex -- both LCOE operations
\* return +infinity as an explicit outcome and raise nothing.
C14_DegenerateLcoeIsInfinite ==
    LET a == op.args
        opex == DictGet(cost_model.current_costs, "opex_per_kw_year", 0)
    IN /\ op.name = "calculate_lcoe" =>
            LET capex == DictGet(cost_model.current_costs, "capex_per_kw", 0)
            IN ( \/ (a.economic_lifetime_years = 0 /\ capex > 0 /\ a.discount_rate_pct >= 0)
                 \/ (a.capacity_factor_pct = 0 /\ (capex > 0 \/ opex > 0)) )
               => (ret.raised = "" /\ ret.lcoe = Infinity)
       /\ (op.name = "calculate_lcoe_for_evolving_solar_tech"
              /\ op.technology \in DOMAIN technologies) =>
            LET capex == get_technology_details(technologies, op.technology, op.year).capex_usd_per_kw
            IN ( \/ (a.economic_lifetime_years = 0 /\ capex > 0)
                 \/ (a.capacity_factor_pct = 0 /\ (capex > 0 \/ opex > 0))
                 \/ (a.economic_lifetime_years > 0 /\ a.discount_rate_pct # 0 /\ capex > 0
                        /\ CrfDenominatorIsZero(a.discount_rate_pct, a.economic_lifetime_years)) )
               => (ret.error /\ ret.lcoe_usd_per_mwh = Infinity)

\* C15 (as claimed): when capex and operating cost are both zero, both LCOE
\* operations return 0 for any generation, zero generation included; and with
\* zero generation they return +infinity only when some cost is positive.
C15_NoCostMeansZeroLcoe ==
    LET a == op.args
        opex == DictGet(cost_model.current_costs, "opex_per_kw_year", 0)
    IN /\ op.name = "calculate_lcoe" =>
            LET capex == DictGet(cost_model.current_costs, "capex_per_kw", 0)
            IN /\ (capex = 0 /\ opex = 0) => (ret.raised = "" /\ ret.lcoe = Finite(0))
               /\ (a.capacity_factor_pct = 0 /\ ret.raised = "" /\ ret.lcoe = Infinity)
                      => (capex > 0 \/ opex > 0)
       /\ (op.name = "calculate_lcoe_for_evolving_solar_tech"
              /\ op.technology \in DOMAIN technologies) =>
            LET capex == get_technology_details(technologies, op.technology, op.year).capex_usd_per_kw
            IN /\ (capex = 0 /\ opex = 0) => (~ret.error /\ ret.lcoe_usd_per_mwh = 0)
               /\ (a.capacity_factor_pct = 0 /\ ret.error) => (capex > 0 \/ opex > 0)

\* C16: when the LCOE computation reports an error (the technology is not
\* registered, the capacity factor is zero with a positive cost, the lifetime
\* is zero with a positive capex), evaluate_project_attractiveness returns a
\* result that carries the error and the LCOE data, whose LCOE is +infinity,
\* and none of the keys computed after the LCOE.
C16_LcoeErrorStopsEvaluation ==
    op.name = "evaluate_project_attractiveness" =>
        LET a == op.args
            opex == DictGet(cost_model.current_costs, "opex_per_kw_year", 0)
            unknown == op.technology \notin DOMAIN technologies
            capex == get_technology_details(technologies, op.technology, op.year).capex_usd_per_kw
        IN ( \/ unknown
             \/ (a.capacity_factor_pct = 0 /\ (capex > 0 \/ opex > 0))
             \/ (a.economic_lifetime_years = 0 /\ capex > 0) )
           => /\ ret.error
              /\ ret.lcoe_data.error
              /\ ret.lcoe_data.lcoe_usd_per_mwh = Infinity
              /\ DOMAIN ret \cap
                    { "market_price_from_simulator_usd_per_mwh", "profit_margin_usd_per_mwh",
                      "projected_annual_profit_usd", "total_ancillary_revenue_usd_per_year",
                      "carbon_credit_revenue_usd_per_year", "initial_investment_usd",
                      "annual_net_cash_flow_usd", "simple_payback_period_years", "npv_usd",
                      "attractiveness_score" } = {}

C16_Witness ==
    /\ op.name = "evaluate_project_attractiveness"
    /\ op.technology \in DOMAIN technologies
    /\ op.capacity > 0
    /\ op.args.capacity_factor_pct = 0
    /\ op.args.economic_lifetime_years > 0
    /\ ret.error
    /\ "lcoe_data" \in DOMAIN ret

\* C17 (as claimed): in an evaluation that completes without error the simple
\* payback is 'N/A' whenever the annual net cash flow is <= 0, for every
\* capacity and investment, and it is a number only when the cash flow is
\* positive.
C17_PaybackUndefinedWithoutCashFlow ==
    (op.name = "evaluate_project_attractiveness" /\ ~ret.error) =>
        /\ ret.annual_net_cash_flow_usd <= 0 => ret.simple_payback_period_years.kind # "years"
        /\ ret.simple_payback_period_years.kind = "years" => ret.annual_net_cash_flow_usd > 0

\* C17 (amended): a project of zero capacity (and so of zero investment) gets
\* the payback 0.0; any other evaluation without error gets 'N/A' whenever the
\* annual net cash flow is <= 0 or the investment is zero, and the ratio
\* investment / cash flow otherwise.
C17_PaybackOfCompletedEvaluation ==
    (op.name = "evaluate_project_attractiveness" /\ ~ret.error) =>
        LET payback == ret.simple_payback_period_years
            investment == ret.initial_investment_usd
            cash_flow == ret.annual_net_cash_flow_usd
        IN IF op.capacity = 0 /\ investment = 0
           THEN payback = [kind |-> "years", years_e2 |-> 0]
           ELSE /\ cash_flow <= 0 => payback.kind # "years"
                /\ investment = 0 => payback.kind # "years"
                /\ payback.kind = "years" =>
                      /\ cash_flow > 0
                      /\ payback.years_e2 = RatioE2(investment, cash_flow)
                /\ (cash_flow > 0 /\ investment # 0) => payback.kind = "years"

C17_Witness ==
    /\ op.name = "evaluate_project_attractiveness"
    /\ ~ret.error
    /\ op.capacity > 0
    /\ ret.initial_investment_usd > 0
    /\ ret.annual_net_cash_flow_usd < 0
    /\ ret.simple_payback_period_years.kind = "N/A (negative or zero cash flow)"

\* C18 (as claimed): for every registered technology with start_year <= 2035,
\* whatever its base and target efficiency, the efficiency returned for a year
\* is at most the 2035 target, and the efficiency returned for a year below
\* 2035 is at least the one of every earlier year (years before start_year
\* included).
C18_EfficiencyBoundedAndRising ==
    (op.name = "get_technology_details" /\ op.technology \in DOMAIN technologies
        /\ technologies[op.technology].start_year <= EFFICIENCY_ANCHOR_YEAR) =>
        LET tech == technologies[op.technology]
        IN /\ ret.efficiency <= tech.projected_efficiency_2035
           /\ op.year < EFFICIENCY_ANCHOR_YEAR =>
                \A earlier \in RegistryYears :
                    earlier <= op.year =>
                        get_params_for_year(tech, op.technology, earlier).efficiency
                            <= ret.efficiency

\* C18 (amended): the same, for the technologies whose 2035 target efficiency
\* is not below their base efficiency.
C18_EfficiencyBoundedAndRisingToTarget ==
    (op.name = "get_technology_details" /\ op.technology \in DOMAIN technologies
        /\ technologies[op.technology].start_year <= EFFICIENCY_ANCHOR_YEAR
        /\ technologies[op.technology].projected_efficiency_2035
               >= technologies[op.technology].base_efficiency) =>
        LET tech == technologies[op.technology]
        IN /\ ret.efficiency <= tech.projected_efficiency_2035
           /\ op.year < EFFICIENCY_ANCHOR_YEAR =>
                \A earlier \in RegistryYears :
                    earlier <= op.year =>
                        get_params_for_year(tech, op.technology, earlier).efficiency
                            <= ret.efficiency

C18_Witness ==
    /\ op.name = "get_technology_details"
    /\ op.technology \in DOMAIN technologies
    /\ technologies[op.technology].start_year < op.year
    /\ op.year < EFFICIENCY_ANCHOR_YEAR
    /\ ret.efficiency > technologies[op.technology].base_efficiency
    /\ ret.efficiency < technologies[op.technology].projected_efficiency_2035

VisitOrders ==
    LET installable == {"TOPCon_PV", "LFP_Battery", "Solar_Battery_Hybrid"}
    IN { o \in [1..3 -> installable] : \A i, j \in 1..3 : i # j => o[i] # o[j] }

MarketGridOptions == { g \in GridInputOptions : g["China"].current_solar_mw = 0 }

MarketSpecInit ==
    /\ \E g \in MarketGridOptions :
          GridInit(g) /\ direct_solar = [r \in DOMAIN g |-> g[r].current_solar_mw]
    /\ cost_model = ReferenceCostModel
    /\ supply_chain_model = ReferenceSupplyChainModel
    /\ technologies = TechRegistry
    /\ market_designs = EmptyDict
    /\ faults \in FaultOptions
    /\ EngineIdle
    /\ op = NoCall
    /\ ret = NoValue
    /\ n_calls = 0

CallSimulateDispatchForYear ==
    \E year \in Years, regions_list \in RegionsOptions, visit_order \in VisitOrders :
        /\ op' = [name |-> "simulate_dispatch_for_year", year |-> year,
                  regions |-> regions_list]
        /\ ret' = simulate_dispatch_for_year(technologies, regional_data, cap_dicts, faults,
                                             year, regions_list, visit_order)
        /\ UNCHANGED <<gridVars, costVars, envVars, n_calls, direct_solar, engineVars>>

MarketSpecNext ==
    \/ CallAddNewCapacity
    \/ CallSimulateDispatchForYear

MarketSpec == MarketSpecInit /\ [][MarketSpecNext]_vars

\* C4: in every region of a dispatch result the total dispatched generation is
\* at most the annual demand (peak load * 8760) and equals the sum of the
\* per-technology amounts, each technology's amount is at most its potential
\* generation, and unmet demand is max(0, demand - total) and not negative.
C4_DispatchWithinDemand ==
    (op.name = "simulate_dispatch_for_year" /\ ret.raised = "") =>
        \A r \in DOMAIN ret.market_outcomes :
            LET o == ret.market_outcomes[r]
                installed == get_current_capacity_by_tech(regional_data, cap_dicts, r)
            IN /\ r \in DOMAIN regional_data =>
                      o.annual_demand_mwh = regional_data[r].current_load_mw * HOURS_PER_YEAR
               /\ o.total_dispatched_generation_mwh <= o.annual_demand_mwh
               /\ o.total_dispatched_generation_mwh =
                      SumOver(o.total_generation_mwh, DOMAIN o.total_generation_mwh)
               /\ \A t \in DOMAIN o.total_generation_mwh :
                      /\ t \in DOMAIN installed
                      /\ o.total_generation_mwh[t] <= PotentialAnnualGenerationMWh(t, installed[t])
               /\ o.unmet_demand_mwh =
                      Max(0, o.annual_demand_mwh - o.total_dispatched_generation_mwh)
               /\ o.unmet_demand_mwh >= 0

\* a dispatch in which one region's demand is met with a technology held below
\* its potential and another region is left with unmet demand
C4_Witness ==
    /\ op.name = "simulate_dispatch_for_year"
    /\ ret.raised = ""
    /\ \E r \in DOMAIN ret.market_outcomes :
          LET o == ret.market_outcomes[r]
              installed == get_current_capacity_by_tech(regional_data, cap_dicts, r)
          IN /\ o.annual_demand_mwh > 0
             /\ o.unmet_demand_mwh = 0
             /\ \E t \in DOMAIN o.total_generation_mwh :
                   o.total_generation_mwh[t] < PotentialAnnualGenerationMWh(t, installed[t])
    /\ \E r \in DOMAIN ret.market_outcomes :
          /\ ret.market_outcomes[r].total_dispatched_generation_mwh > 0
          /\ ret.market_outcomes[r].unmet_demand_mwh > 0

\* the set of the elements of a list
Range(seq) == { seq[i] : i \in 1..Len(seq) }

\* the region holds no positive capacity of any technology
NoInstalledCapacity(rd, cd, region_name) ==
    LET installed == get_current_capacity_by_tech(rd, cd, region_name)
    IN \A t \in DOMAIN installed : installed[t] <= 0

EligibleTechs(techs, rd, cd, region_name, year) ==
    LET installed == get_current_capacity_by_tech(rd, cd, region_name)
    IN { t \in DOMAIN installed :
           /\ installed[t] > 0
           /\ t \in DOMAIN techs
           /\ year >= techs[t].commercial_scale_year }

\* the sum of the potential generation of the eligible technologies of a region
EligiblePotentialMWh(techs, rd, cd, region_name, year) ==
    LET installed == get_current_capacity_by_tech(rd, cd, region_name)
        eligible == EligibleTechs(techs, rd, cd, region_name, year)
    IN SumOver([t \in eligible |-> PotentialAnnualGenerationMWh(t, installed[t])], eligible)

\* C22: in a dispatch that returns, for every region with grid data the total
\* dispatched generation is the smaller of the annual demand and the sum of the
\* potential generation of the eligible technologies, the unmet demand is zero
\* exactly when that sum is at least the annual demand, and every order of
\* visiting the installed technologies gives the same total and the same unmet
\* demand.
C22_TotalIsMinOfDemandAndPotential ==
    (op.name = "simulate_dispatch_for_year" /\ ret.raised = "") =>
        \A r \in Range(op.regions) \cap DOMAIN regional_data :
            LET o == ret.market_outcomes[r]
                demand == regional_data[r].current_load_mw * HOURS_PER_YEAR
                supply == EligiblePotentialMWh(technologies, regional_data, cap_dicts, r, op.year)
            IN /\ o.total_dispatched_generation_mwh = IF demand <= supply THEN demand ELSE supply
               /\ (o.unmet_demand_mwh = 0) <=> (supply >= demand)
               /\ \A visit_order \in VisitOrders :
                      LET other == simulate_dispatch_for_year(
                                       technologies, regional_data, cap_dicts, faults, op.year,
                                       op.regions, visit_order).market_outcomes[r]
                      IN /\ other.total_dispatched_generation_mwh =
                                o.total_dispatched_generation_mwh
                         /\ other.unmet_demand_mwh = o.unmet_demand_mwh

\* a region whose demand is met by two eligible technologies together and by
\* neither of them alone
C22_Witness ==
    /\ op.name = "simulate_dispatch_for_year"
    /\ ret.raised = ""
    /\ \E r \in Range(op.regions) \cap DOMAIN regional_data :
          LET installed == get_current_capacity_by_tech(regional_data, cap_dicts, r)
              eligible == EligibleTechs(technologies, regional_data, cap_dicts, r, op.year)
              demand == regional_data[r].current_load_mw * HOURS_PER_YEAR
          IN /\ Cardinality(eligible) = 2
             /\ \A t \in eligible : PotentialAnnualGenerationMWh(t, installed[t]) < demand
             /\ Cardinality(DOMAIN ret.market_outcomes[r].total_generation_mwh) = 2
             /\ ret.market_outcomes[r].unmet_demand_mwh = 0

\* C23: in a dispatch that returns, a technology has generation in a region
\* only if the region's installed capacity of it is positive, the registry
\* holds it and the year is at or after its commercial_scale_year; capacity
\* installed of a technology whose commercial_scale_year is still ahead
\* generates nothing in that year.
C23_OnlyEligibleTechnologiesGenerate ==
    (op.name = "simulate_dispatch_for_year" /\ ret.raised = "") =>
        \A r \in DOMAIN ret.market_outcomes :
            LET generation == ret.market_outcomes[r].total_generation_mwh
                installed == get_current_capacity_by_tech(regional_data, cap_dicts, r)
            IN /\ \A t \in DOMAIN generation :
                      /\ generation[t] > 0
                      /\ DictGet(installed, t, 0) > 0
                      /\ t \in DOMAIN technologies
                      /\ op.year >= technologies[t].commercial_scale_year
               /\ \A t \in DOMAIN installed \cap DOMAIN technologies :
                      op.year < technologies[t].commercial_scale_year
                          => DictGet(generation, t, 0) = 0

\* a region with unmet demand that holds capacity of a technology not yet
\* commercially available in the year of the dispatch
C23_Witness ==
    /\ op.name = "simulate_dispatch_for_year"
    /\ ret.raised = ""
    /\ \E r \in DOMAIN ret.market_outcomes \cap DOMAIN regional_data :
          LET installed == get_current_capacity_by_tech(regional_data, cap_dicts, r)
          IN /\ \E t \in DOMAIN installed \cap DOMAIN technologies :
                   /\ installed[t] > 0
                   /\ op.year < technologies[t].commercial_scale_year
             /\ ret.market_outcomes[r].total_dispatched_generation_mwh > 0
             /\ ret.market_outcomes[r].unmet_demand_mwh > 0

(***************************************************************************)
(* SimulationEngine.  The engine is given a configuration, validates it    *)
(* at construction and runs the yearly loop over the models above.         *)
(***************************************************************************)
\* engine.py:65-68
required_models ==
    {"cost_model", "policy_model", "solar_tech_model", "supply_chain_model",
     "investment_model", "market_model", "grid_model"}

\* engine.py:45-51: config['models'].get(name), "none" standing for None
model_ref(cfg, model_name) == DictGet(cfg.models, model_name, "none")

\* a validation that looks at the models only
validate_models_only(cfg) ==
    IF ~(required_models \subseteq DOMAIN cfg.models) THEN "ValueError" ELSE ""

\* SimulationEngine._validate_config: the exception raised ("" for none)
validate_config(cfg) ==
    IF ~(required_models \subseteq DOMAIN cfg.models) THEN "ValueError"
    ELSE IF Len(cfg.regions) = 0 THEN "ValueError"
    ELSE IF Len(cfg.technologies) = 0 THEN "ValueError"
    ELSE ""

\* range(start_year, end_year + 1) that stops one year early
YearBeforeLast(year, end_year) == year + 1 < end_year

\* engine.py:90: whether range(start_year, end_year + 1) has a year after 'year'
HasNextYear(year, end_year) == year < end_year

\* SimulationEngine.__init__
Construct ==
    /\ pc = "New"
    /\ results' = <<>>
    /\ pc' = IF validate_config(config) = "" THEN "Configured" ELSE "ConfigError"
    /\ UNCHANGED <<gridVars, costVars, envVars, callVars, config, current_year,
                   yearly_investments, yearly_outcomes, phase_log>>

\* run_simulation is called: the loop head is reached for the first time
StartRun ==
    /\ pc = "Configured"
    /\ IF HasNextYear(config.start_year - 1, config.end_year)
       THEN /\ pc' = "UpdatingModels"
            /\ current_year' = config.start_year
            /\ phase_log' = Append(phase_log, <<"UpdatingModels", config.start_year>>)
       ELSE /\ pc' = "Finalizing"
            /\ current_year' = current_year
            /\ phase_log' = Append(phase_log, <<"Finalizing", config.end_year>>)
    /\ UNCHANGED <<gridVars, costVars, envVars, callVars, config, results,
                   yearly_investments, yearly_outcomes>>

\* SimulationEngine._update_models_for_year: of the seven models only CostModel
\* and GridModel have an update_for_year, and GridModel's changes nothing
UpdateModelsForYear ==
    /\ pc = "UpdatingModels"
    /\ cost_model' = IF model_ref(config, "cost_model") = "none" THEN cost_model
                     ELSE cost_update_for_year(cost_model, supply_chain_model, NoVolume)
    /\ pc' = "DecidingInvestments"
    /\ phase_log' = Append(phase_log, <<"DecidingInvestments", current_year>>)
    /\ UNCHANGED <<gridVars, supply_chain_model, envVars, callVars, config, current_year,
                   results, yearly_investments, yearly_outcomes>>

\* SimulationEngine._make_investment_decisions
MakeInvestmentDecisions ==
    /\ pc = "DecidingInvestments"
    /\ yearly_investments' =
          IF model_ref(config, "investment_model") = "none" THEN EmptyDict
          ELSE decide_investments(InvestmentModelSelf, faults, current_year,
                                  config.regions, config.technologies)
    /\ pc' = "SimulatingDispatch"
    /\ phase_log' = Append(phase_log, <<"SimulatingDispatch", current_year>>)
    /\ UNCHANGED <<gridVars, costVars, envVars, callVars, config, current_year,
                   results, yearly_outcomes>>

\* the exceptions the per-technology loop of the dispatch meets: those of
\* 'faults' and, when the engine hands over None as solar_tech_model, the
\* AttributeError of None.get_technology_details (market_model.py:127)
DispatchFaults(cfg, flt) ==
    IF model_ref(cfg, "solar_tech_model") = "none"
    THEN [p \in RegionNames \X TechNames |-> "AttributeError"]
    ELSE flt

\* a dispatch that is handed the ledger with the year's plan already pushed
DispatchAfterPush(cfg, techs, rd, cd, flt, year, visit_order) ==
    IF model_ref(cfg, "market_model") = "none"
    THEN [raised |-> "", market_outcomes |-> EmptyDict]
    ELSE LET pushed == add_new_capacity(rd, cd, yearly_investments, DOMAIN yearly_investments)
             r == IF model_ref(cfg, "grid_model") = "none"
                  THEN [raised |-> "AttributeError", market_outcomes |-> EmptyDict]
                  ELSE simulate_dispatch_for_year(techs, pushed[1], pushed[2],
                                                  DispatchFaults(cfg, flt),
                                                  year, cfg.regions, visit_order)
         IN IF r.raised = "TypeError"
            THEN [raised |-> "", market_outcomes |-> EmptyDict]
            ELSE r

\* SimulationEngine._simulate_market_and_dispatch: the exception that leaves
\* it ("" for none) and the market outcomes it returns.  Only TypeError is
\* handled (engine.py:213); a None grid_model makes the first region's
\* grid_model.regional_data raise AttributeError (market_model.py:105).
simulate_market_and_dispatch(cfg, techs, rd, cd, flt, year, visit_order) ==
    IF model_ref(cfg, "market_model") = "none"
    THEN [raised |-> "", market_outcomes |-> EmptyDict]
    ELSE LET r == IF model_ref(cfg, "grid_model") = "none"
                  THEN [raised |-> "AttributeError", market_outcomes |-> EmptyDict]
                  ELSE simulate_dispatch_for_year(techs, rd, cd, DispatchFaults(cfg, flt),
                                                  year, cfg.regions, visit_order)
         IN IF r.raised = "TypeError"
            THEN [raised |-> "", market_outcomes |-> EmptyDict]
            ELSE r

\* The technologies of installed_capacities are visited in the dictionary's
\* insertion order, which the ledger of this model does not record: every
\* order is considered.
SimulateMarketAndDispatch ==
    /\ pc = "SimulatingDispatch"
    /\ \E visit_order \in VisitOrders :
          LET r == simulate_market_and_dispatch(config, technologies, regional_data,
                       cap_dicts, faults, current_year, visit_order)
          IN IF r.raised = ""
             THEN /\ yearly_outcomes' = r.market_outcomes
                  /\ pc' = "UpdatingState"
                  /\ phase_log' = Append(phase_log, <<"UpdatingState", current_year>>)
             ELSE \* the exception leaves run_simulation
                  /\ pc' = "Aborted"
                  /\ UNCHANGED <<yearly_outcomes, phase_log>>
    /\ UNCHANGED <<gridVars, costVars, envVars, callVars, config, current_year,
                   results, yearly_investments>>

\* SimulationEngine._update_system_state: 'if investments:' is the truth value
\* of the dictionary, that is whether it has a key
UpdateSystemState ==
    /\ pc = "UpdatingState"
    /\ IF model_ref(config, "grid_model") # "none" /\ DOMAIN yearly_investments # {}
       THEN LET s == add_new_capacity(regional_data, cap_dicts, yearly_investments,
                                      DOMAIN yearly_investments)
            IN /\ regional_data' = s[1]
               /\ cap_dicts' = s[2]
       ELSE UNCHANGED gridVars
    /\ pc' = "RecordingResults"
    /\ phase_log' = Append(phase_log, <<"RecordingResults", current_year>>)
    /\ UNCHANGED <<costVars, envVars, callVars, config, current_year, results,
                   yearly_investments, yearly_outcomes>>

\* SimulationEngine._collect_yearly_results, then the loop head
CollectYearlyResults ==
    /\ pc = "RecordingResults"
    /\ results' = Append(results, [year |-> current_year,
                                   investments |-> yearly_investments,
                                   market_outcomes |-> yearly_outcomes])
    /\ IF HasNextYear(current_year, config.end_year)
       THEN /\ pc' = "UpdatingModels"
            /\ current_year' = current_year + 1
            /\ phase_log' = Append(phase_log, <<"UpdatingModels", current_year + 1>>)
       ELSE /\ pc' = "Finalizing"
            /\ current_year' = current_year
            /\ phase_log' = Append(phase_log, <<"Finalizing", config.end_year>>)
    /\ UNCHANGED <<gridVars, costVars, envVars, callVars, config,
                   yearly_investments, yearly_outcomes>>

\* SimulationEngine._finalize_and_save_results, then run_simulation returns
FinalizeAndSaveResults ==
    /\ pc = "Finalizing"
    /\ pc' = "Done"
    /\ UNCHANGED <<gridVars, costVars, envVars, callVars, config, current_year, results,
                   yearly_investments, yearly_outcomes, phase_log>>

(***************************************************************************)
(* EngineSpec: one engine is constructed from a configuration and, if the  *)
(* construction succeeds, run_simulation is called on it once.             *)
(***************************************************************************)
AllModels == [m \in required_models |-> "ok"]

\* config['models'] of the configurations considered: every model given; one
\* key absent; one key present with the value None
ModelsWithoutOne == { [m \in required_models \ {k} |-> "ok"] : k \in required_models }
ModelsWithNone ==
    { [AllModels EXCEPT ![k] = "none"]
        : k \in {"investment_model", "market_model", "grid_model", "solar_tech_model"} }

LastYear == StartYear + MaxYears - 1

\* the configurations considered (run_full_simulation.py:165-181 is the first
\* kind, with the period 2025-2030)
EngineConfigOptions ==
    { [models |-> AllModels, regions |-> rl, technologies |-> tl,
       start_year |-> StartYear, end_year |-> e]
        : rl \in RegionsOptions \cup {<<>>}, tl \in TechnologiesOptions \cup {<<>>},
          e \in (StartYear - 1) .. LastYear }
    \cup
    { [models |-> m, regions |-> <<"USA", "China">>,
       technologies |-> <<"TOPCon_PV", "LFP_Battery">>,
       start_year |-> StartYear, end_year |-> LastYear]
        : m \in ModelsWithoutOne \cup ModelsWithNone }

\* a technology whose entry in the registry makes get_technology_details raise
\* in every region: an entry that is not a SolarTechnology (AttributeError), a
\* SolarTechnology whose commercial_scale_year is None (TypeError)
EngineFaultOptions ==
    { EmptyDict }
    \cup
    { [p \in RegionNames \X {"LFP_Battery"} |-> kind] : kind \in {"AttributeError", "TypeError"} }

\* the 'capacities_mw_by_tech' dictionary that the initial data of USA brings,
\* when it brings one
InitialCapacityOptions == { EmptyDict, [t \in {"LFP_Battery"} |-> ReferenceCapacityMW] }

\* GridModel.__init__ for initial data g in which USA's own dictionary, if it
\* has one, is usa_capacities
EngineGridInit(g, usa_capacities) ==
    /\ regional_data = [r \in DOMAIN g |-> GridInitRegion(r, g[r])]
    /\ cap_dicts = [id \in {DefaultDictId} \cup {r \in DOMAIN g : g[r].own_caps} |->
                       IF id = "USA" THEN usa_capacities ELSE EmptyDict]

EngineSpecInit ==
    /\ \E g \in MarketGridOptions, usa_capacities \in InitialCapacityOptions :
          /\ EngineGridInit(g, usa_capacities)
          /\ direct_solar = [r \in DOMAIN g |-> g[r].current_solar_mw]
    /\ cost_model = ReferenceCostModel
    /\ supply_chain_model = ReferenceSupplyChainModel
    /\ technologies = TechRegistry
    /\ market_designs \in MarketDesignOptions
    /\ faults \in EngineFaultOptions
    /\ op = NoCall
    /\ ret = NoValue
    /\ n_calls = 0
    /\ config \in EngineConfigOptions
    /\ pc = "New"
    /\ current_year = 0
    /\ results = <<>>
    /\ yearly_investments = EmptyDict
    /\ yearly_outcomes = EmptyDict
    /\ phase_log = <<>>

EngineSpecNext ==
    \/ Construct
    \/ StartRun
    \/ UpdateModelsForYear
    \/ MakeInvestmentDecisions
    \/ SimulateMarketAndDispatch
    \/ UpdateSystemState
    \/ CollectYearlyResults
    \/ FinalizeAndSaveResults

EngineSpec == EngineSpecInit /\ [][EngineSpecNext]_vars

IsPrefix(p, q) == Len(p) <= Len(q) /\ \A i \in 1..Len(p) : p[i] = q[i]

\* what _validate_config is said to reject
ConfigIsIncomplete(cfg) ==
    \/ \E m \in required_models : m \notin DOMAIN cfg.models
    \/ cfg.regions = <<>>
    \/ cfg.technologies = <<>>

\* C3: constructing the engine with a required model missing from the
\* configuration, with an empty region list or with an empty technology list
\* fails with a configuration error at construction: the engine is never
\* configured, no phase of any year is entered and no year record exists.
\* Construction fails for no other configuration.
C3_ConfigErrorAtConstruction ==
    /\ ConfigIsIncomplete(config) =>
          /\ pc \in {"New", "ConfigError"}
          /\ results = <<>>
          /\ phase_log = <<>>
    /\ pc = "ConfigError" => ConfigIsIncomplete(config)

\* a construction that failed for a missing model although both lists are given
C3_Witness ==
    /\ pc = "ConfigError"
    /\ "grid_model" \notin DOMAIN config.models
    /\ config.regions # <<>>
    /\ config.technologies # <<>>

\* the years of [start_year, end_year] in ascending order
ExpectedYears(cfg) ==
    [i \in 1 .. Max(0, cfg.end_year - cfg.start_year + 1) |-> cfg.start_year + i - 1]

RecordedYears == [i \in 1 .. Len(results) |-> results[i].year]

\* every collaborator is an object, and no (region, technology) pair raises
MeetsOnlyRecoverableErrors ==
    /\ faults = EmptyDict
    /\ \A m \in required_models : model_ref(config, m) # "none"

\* the engine has been constructed from a configuration with
\* start_year <= end_year, and its run meets no error or only recoverable ones
ValidRunOfSomeYears ==
    /\ pc \notin {"New", "ConfigError"}
    /\ config.start_year <= config.end_year
    /\ MeetsOnlyRecoverableErrors

\* an upper bound of the number of steps that run_simulation has yet to take:
\* five per year and the finalization
RunStepsLeft ==
    IF pc = "Done" THEN 0
    ELSE 2 + 5 * Len(ExpectedYears(config)) - Len(phase_log)

\* the values of pc at which a step of the run is enabled: the guard of every
\* step is its value of pc and nothing else
RunInProgress ==
    pc \in {"Configured", "UpdatingModels", "DecidingInvestments", "SimulatingDispatch",
            "UpdatingState", "RecordingResults", "Finalizing"}

\* C1: a constructed engine with start_year <= end_year whose run meets no
\* error or only recoverable ones (unknown technology, unknown region)
\* terminates: no exception leaves the run, the run can go on until it is
\* Done and every step brings it nearer.  The records appended so far are
\* those of the first years of [start_year, end_year] in ascending order, the
\* i-th record being that of year start_year + i, and at the end there is
\* exactly one record for each year.
C1_OneRecordPerYear ==
    /\ [](ValidRunOfSomeYears =>
            /\ pc # "Aborted"
            /\ pc # "Done" => RunInProgress
            /\ IsPrefix(RecordedYears, ExpectedYears(config))
            /\ pc = "Done" => RecordedYears = ExpectedYears(config))
    /\ [][ValidRunOfSomeYears => (RunStepsLeft >= 0 /\ RunStepsLeft' < RunStepsLeft)]_vars

\* a finished run of several years that met a region unknown to the grid
\* ledger and a technology unknown to the technology model
C1_Witness ==
    /\ pc = "Done"
    /\ MeetsOnlyRecoverableErrors
    /\ Len(results) >= 2
    /\ RecordedYears = ExpectedYears(config)
    /\ \E i \in 1..Len(config.regions) : config.regions[i] \notin DOMAIN regional_data
    /\ \E i \in 1..Len(config.technologies) : config.technologies[i] \notin DOMAIN technologies

PhasesOfAYear ==
    <<"UpdatingModels", "DecidingInvestments", "SimulatingDispatch", "UpdatingState",
      "RecordingResults">>

\* the phases of a whole run: those of each year in turn, then Finalizing
ExpectedPhaseLog(cfg) ==
    LET n == Len(ExpectedYears(cfg))
    IN [k \in 1 .. (5 * n + 1) |->
           IF k <= 5 * n
           THEN <<PhasesOfAYear[((k - 1) % 5) + 1], cfg.start_year + ((k - 1) \div 5)>>
           ELSE <<"Finalizing", cfg.end_year>>]

\* C2 (as claimed): in every run the phases entered are, year after year,
\* UpdatingModels, DecidingInvestments, SimulatingDispatch, UpdatingState,
\* RecordingResults, each once and in that order, then Finalizing once after
\* the last year; a run ends in Done, having entered all of them.
C2_PhasesInOrder ==
    /\ IsPrefix(phase_log, ExpectedPhaseLog(config))
    /\ pc \in {"Done", "Aborted"} =>
          (pc = "Done" /\ phase_log = ExpectedPhaseLog(config))

\* C7 (as claimed): when a (region, technology) pair raises during the dispatch
\* of a year, the run goes on; the dispatch of that year has an entry for every
\* region, in which the pair has no generation and every other dispatchable
\* technology of the region is dispatched unless the demand is already met.
C7_FaultyPairIsolated ==
    (\A m \in required_models : model_ref(config, m) # "none") =>
        /\ pc # "Aborted"
        /\ pc = "UpdatingState" =>
              \A i \in 1..Len(config.regions) :
                  LET r == config.regions[i]
                      installed == get_current_capacity_by_tech(regional_data, cap_dicts, r)
                  IN /\ r \in DOMAIN yearly_outcomes
                     /\ \A t \in DOMAIN installed :
                           LET details == get_technology_details(technologies, t, current_year)
                               o == yearly_outcomes[r]
                           IN IF <<r, t>> \in DOMAIN faults
                              THEN t \notin DOMAIN o.total_generation_mwh
                              ELSE (/\ r \in DOMAIN regional_data
                                    /\ installed[t] > 0
                                    /\ ~details.error
                                    /\ details.is_commercially_available)
                                   => (\/ t \in DOMAIN o.total_generation_mwh
                                       \/ o.unmet_demand_mwh = 0)

\* the engine holds a market simulator and a grid ledger: the dispatch of a
\* year is computed
DispatchIsComputed ==
    /\ pc \notin {"New", "ConfigError"}
    /\ model_ref(config, "market_model") # "none"
    /\ model_ref(config, "grid_model") # "none"

LedgerCapacity(rd, cd, region_name, tech_name) ==
    DictGet(get_current_capacity_by_tech(rd, cd, region_name), tech_name, 0)

\* the positive capacity a plan lists for a (region, technology) pair, if any
PlannedCapacity(plan, region_name, tech_name) ==
    IF region_name \in DOMAIN plan /\ tech_name \in DOMAIN plan[region_name]
          /\ plan[region_name][tech_name] > 0
    THEN plan[region_name][tech_name]
    ELSE 0

\* C29 (as claimed): the record of a year carries the plan of that year, and
\* when it is appended every positive capacity of the plan has been added to
\* the ledger's capacity for its region and technology: the push of the year
\* raises the ledger's capacity of every (region, technology) pair by exactly
\* what the plan lists for the pair, the region of every listed pair is in the
\* ledger, and no other step changes the ledger, so that the ledger's capacity
\* after the run is its initial value plus the sum of the recorded investments.
C29_RecordAndLedgerAgree ==
    /\ [][(pc = "UpdatingState" /\ pc' = "RecordingResults") =>
             \A r \in RegionNames, t \in TechNames :
                 /\ PlannedCapacity(yearly_investments, r, t) > 0 => r \in DOMAIN regional_data'
                 /\ LedgerCapacity(regional_data', cap_dicts', r, t) =
                        LedgerCapacity(regional_data, cap_dicts, r, t)
                            + PlannedCapacity(yearly_investments, r, t)]_vars
    /\ [][(pc = "RecordingResults" /\ pc' # pc) =>
             /\ Len(results') = Len(results) + 1
             /\ results'[Len(results')].investments = yearly_investments
             /\ results'[Len(results')].year = current_year]_vars
    /\ [][(regional_data' # regional_data \/ cap_dicts' # cap_dicts)
            => pc = "UpdatingState"]_vars

\* C30 (as claimed): once the engine is constructed, each of the seven model
\* references it holds is an object, so that every year of a run passes through
\* the investment decision, the dispatch and the grid update with the
\* collaborator of the step present.
C30_CollaboratorsPresent ==
    pc \notin {"New", "ConfigError"} =>
        /\ \A m \in required_models : model_ref(config, m) # "none"
        /\ pc = "DecidingInvestments" => model_ref(config, "investment_model") # "none"
        /\ pc = "SimulatingDispatch" => model_ref(config, "market_model") # "none"
        /\ pc = "UpdatingState" => model_ref(config, "grid_model") # "none"

(***************************************************************************)
(* RegistrySpec: the grid ledger holds capacity of a technology the        *)
(* registry holds and of one it may not hold; the registry, the investment *)
(* model and the market simulator are asked about them.                    *)
(***************************************************************************)
RegistrySpecInit ==
    /\ \E g \in MarketGridOptions :
          /\ EngineGridInit(g, [t \in {"TOPCon_PV", "LFP_Battery"} |-> ReferenceCapacityMW])
          /\ direct_solar = [r \in DOMAIN g |-> g[r].current_solar_mw]
    /\ cost_model = ReferenceCostModel
    /\ supply_chain_model = ReferenceSupplyChainModel
    /\ \E registered \in {DOMAIN TechRegistry, DOMAIN TechRegistry \ {"LFP_Battery"}} :
          technologies = [n \in registered |-> TechRegistry[n]]
    /\ market_designs \in MarketDesignOptions
    /\ faults = EmptyDict
    /\ EngineIdle
    /\ op = NoCall
    /\ ret = NoValue
    /\ n_calls = 0

RegistrySpecNext ==
    \/ CallGetTechnologyDetails
    \/ CallDecideInvestments
    \/ CallSimulateDispatchForYear

RegistrySpec == RegistrySpecInit /\ [][RegistrySpecNext]_vars

\* C20: get_technology_details for a name that is not registered returns the
\* not-found error result and leaves the registry as it is; decide_investments
\* plans nothing for such a technology and plans for the others what it plans
\* when the name is not in its list; the dispatch generates nothing from such a
\* technology and dispatches the others as if its capacity were not there.
C20_UnregisteredTechnologySkipped ==
    /\ []((op.name = "get_technology_details" /\ op.technology \notin DOMAIN technologies) =>
             ret = [error |-> TRUE])
    /\ [][op'.name = "get_technology_details" => technologies' = technologies]_vars
    /\ [](op.name = "decide_investments" =>
             LET Registered(t) == t \in DOMAIN technologies
             IN /\ \A p \in RequestedPairs(op) :
                       ~Registered(p[2]) => p[2] \notin DOMAIN ret.plan[p[1]]
                /\ ret.plan = decide_investments(InvestmentModelSelf, faults, op.year, op.regions,
                                                 SelectSeq(op.technologies, Registered)))
    /\ [](op.name = "simulate_dispatch_for_year" =>
             LET registered_capacities ==
                     [id \in DOMAIN cap_dicts |->
                         [t \in DOMAIN cap_dicts[id] \cap DOMAIN technologies |->
                             cap_dicts[id][t]]]
             IN /\ ret.raised = ""
                /\ \A r \in DOMAIN ret.market_outcomes :
                       DOMAIN ret.market_outcomes[r].total_generation_mwh
                           \subseteq DOMAIN technologies
                /\ \E visit_order \in VisitOrders :
                       ret = simulate_dispatch_for_year(technologies, regional_data,
                                                        registered_capacities, faults, op.year,
                                                        op.regions, visit_order))

C20_Witness ==
    /\ op.name = "simulate_dispatch_for_year"
    /\ "LFP_Battery" \notin DOMAIN technologies
    /\ "USA" \in DOMAIN ret.market_outcomes
    /\ DictGet(get_current_capacity_by_tech(regional_data, cap_dicts, "USA"), "LFP_Battery", 0) > 0
    /\ DictGet(ret.market_outcomes["USA"].total_generation_mwh, "TOPCon_PV", 0) > 0
    /\ ret.market_outcomes["USA"].unmet_demand_mwh > 0

====
